---- MODULE Spec2Model ----
(***************************************************************************)
(* Model of the Sentry webhook service: the signature gate, the webhook    *)
(* handler, the bounded job queue, the dispatcher loop and the per-job     *)
(* pipeline of cmd/server/main.go.                                         *)
(***************************************************************************)
EXTENDS Integers, Sequences, FiniteSets, TLC

(***************************************************************************)
(* Bounds of the model.                                                    *)
(***************************************************************************)
\* capacity of the job channel; main.go makes it 100, the model scales it
QueueCap == 2
\* number of requests the listener accepts in one run
MaxRequests == 3
\* length of a buffered body, in bytes
MaxBodyLen == 3
\* length of the buffer a caller passes to Read
MaxBufLen == 2
\* number of Read calls made on one reader
MaxReads == 5
\* number of provider calls made one after the other on one remote
MaxCalls == 2
\* number of elements of the frames array of one stacktrace
MaxFrames == 2
\* the commits another writer pushes while CommitFiles runs
MaxOtherPushes == 1

(***************************************************************************)
(* HTTP status codes written by the gate and the handler.                  *)
(***************************************************************************)
StatusAccepted == 202
StatusBadRequest == 400
StatusUnauthorized == 401
StatusMethodNotAllowed == 405
\* no status line was written (the connection is still open or was aborted)
NoStatus == 0

(***************************************************************************)
(* Payloads.  A pointer is a sequence of length at most one: <<>> is nil.  *)
(***************************************************************************)
Issues ==
    { [ID |-> "12345", Slug |-> "test-project"],
      [ID |-> "67890", Slug |-> "other-project"],
      [ID |-> "", Slug |-> ""] }

Actions == {"created", "triggered", "resolved"}

\* the bodies json.Unmarshal accepts: an action and an optional issue object
JSONBodies ==
    { [json |-> TRUE, action |-> a, issue |-> i] :
        a \in Actions, i \in {<<>>} \cup { <<x>> : x \in Issues } }

\* a body that is not JSON ("not valid json" in the handler test)
NotJSON == [json |-> FALSE, action |-> "", issue |-> <<>>]

Bodies == JSONBodies \cup {NotJSON}

(***************************************************************************)
(* Signature gate (internal/webhook/signature.go).                         *)
(***************************************************************************)
\* cfg.SentryWebhookSecret
Secret == "s3cret"

\* hmac.New(sha256.New, key); mac.Write(body); mac.Sum(nil): the digest is a
\* symbolic term, equal only for equal key and equal body
HMACSHA256(key, body) == <<"hmac-sha256", key, body>>

\* hex.EncodeToString: never the empty string
HexEncodeToString(digest) == <<"hex", digest>>

\* computeSignature of the signature test: what a sender holding key sends
ComputeSignature(key, body) == HexEncodeToString(HMACSHA256(key, body))

\* the empty header value: r.Header.Get returns "" for a missing header
EmptySignature == <<>>

\* NewSignatureVerifier(secret)
NewSignatureVerifier(secret) == [secret |-> secret]

\* a verifier that checks that the signature is a MAC under its secret, of
\* any body
SignatureVerifier_VerifyAnyBody(v, signature, body) ==
    \E b \in Bodies : signature = HexEncodeToString(HMACSHA256(v.secret, b))

\* (v *SignatureVerifier) Verify(signature, body): false for the empty
\* signature, otherwise hmac.Equal of the signature and the expected one
SignatureVerifier_Verify(v, signature, body) ==
    IF signature = EmptySignature
    THEN FALSE
    ELSE signature = HexEncodeToString(HMACSHA256(v.secret, body))

\* the verifier main.go builds from cfg.SentryWebhookSecret
Verify(signature, body) ==
    SignatureVerifier_Verify(NewSignatureVerifier(Secret), signature, body)

\* a body other than the one sent, for a signature computed over another body
OtherBody(body) ==
    IF body = NotJSON
    THEN [json |-> TRUE, action |-> "created", issue |-> <<>>]
    ELSE NotJSON

\* the signature headers a request may carry for its body
SignaturesFor(body) ==
    { EmptySignature,
      ComputeSignature(Secret, body),
      ComputeSignature("wrong", body),
      ComputeSignature(Secret, OtherBody(body)),
      <<"invalid">> }

\* the bodies sent with a method other than POST
GetBodies ==
    { NotJSON,
      [json |-> TRUE, action |-> "created",
       issue |-> <<[ID |-> "12345", Slug |-> "test-project"]>>],
      [json |-> TRUE, action |-> "resolved", issue |-> <<>>] }

\* a request as it arrives at the mux; readErr says that reading the body
\* from the connection fails (the content is then never seen)
Requests ==
    UNION { { [method |-> "POST", sig |-> s, readErr |-> FALSE, body |-> b] :
                s \in SignaturesFor(b) } : b \in Bodies }
    \cup
    UNION { { [method |-> "GET", sig |-> s, readErr |-> FALSE, body |-> b] :
                s \in SignaturesFor(b) } : b \in GetBodies }
    \cup
    { [method |-> m, sig |-> s, readErr |-> TRUE, body |-> NotJSON] :
        m \in {"POST", "GET"}, s \in SignaturesFor(NotJSON) }

\* the requests of the concurrent specification: correctly signed POSTs of
\* every action with a mapped, an unmapped and no issue, and a forged one
CoreBodies ==
    { [json |-> TRUE, action |-> "created",
       issue |-> <<[ID |-> "12345", Slug |-> "test-project"]>>],
      [json |-> TRUE, action |-> "triggered",
       issue |-> <<[ID |-> "67890", Slug |-> "other-project"]>>],
      [json |-> TRUE, action |-> "resolved",
       issue |-> <<[ID |-> "12345", Slug |-> "test-project"]>>] }

CoreRequests ==
    { [method |-> "POST", sig |-> ComputeSignature(Secret, b),
       readErr |-> FALSE, body |-> b] : b \in CoreBodies }
    \cup
    { [method |-> "POST", sig |-> ComputeSignature("wrong", b),
       readErr |-> FALSE, body |-> b] :
        b \in { x \in CoreBodies : x.action = "created" } }

(***************************************************************************)
(* Event normalizer (internal/webhook/types.go) and configuration.         *)
(***************************************************************************)
\* json.Unmarshal(body, &webhook): an error for a body that is not JSON,
\* otherwise the SentryWebhook with its Data.Issue pointer
Unmarshal(body) ==
    IF body.json
    THEN [err |-> FALSE,
          webhook |-> [Action |-> body.action, Issue |-> body.issue, Event |-> <<>>]]
    ELSE [err |-> TRUE, webhook |-> [Action |-> "", Issue |-> <<>>, Event |-> <<>>]]

\* a decoded JSON value (interface{}): its dynamic type and its content; an
\* object is a function from its keys to values, an array a sequence
JNull == [k |-> "null"]
JBool(b) == [k |-> "bool", b |-> b]
JString(str) == [k |-> "string", s |-> str]
JNumber(n) == [k |-> "number", n |-> n]
JArray(seq) == [k |-> "array", a |-> seq]
JObject(f) == [k |-> "object", o |-> f]

\* m[key] of a map[string]interface{}: nil for a key that is not there
Get(m, key) == IF key \in DOMAIN m THEN m[key] ELSE JNull

\* getBool: the value when it is a bool, false otherwise
getBool(m, key) == IF Get(m, key).k = "bool" THEN Get(m, key).b ELSE FALSE

\* if x, ok := fm[key].(string); ok { field = x }
StringField(fm, key) == IF Get(fm, key).k = "string" THEN Get(fm, key).s ELSE ""

\* if x, ok := fm[key].(float64); ok { field = int(x) }
IntField(fm, key) == IF Get(fm, key).k = "number" THEN Get(fm, key).n ELSE 0

\* the Frame built from one object of the frames array
FrameOf(fm) ==
    [InApp |-> getBool(fm, "inApp"),
     Filename |-> StringField(fm, "filename"),
     AbsPath |-> StringField(fm, "absPath"),
     Function |-> StringField(fm, "function"),
     LineNo |-> IntField(fm, "lineNo"),
     ColNo |-> IntField(fm, "colNo"),
     Module |-> StringField(fm, "module")]

\* for _, f := range frames: the elements that are objects, appended in order
RECURSIVE FramesOfArray(_)
FramesOfArray(frames) ==
    IF frames = << >>
    THEN << >>
    ELSE (IF Head(frames).k = "object" THEN << FrameOf(Head(frames).o) >> ELSE << >>)
         \o FramesOfArray(Tail(frames))

\* one element of values: val["stacktrace"]["frames"], through the type
\* assertions
FramesOfValue(val) ==
    IF val.k # "object"
    THEN << >>
    ELSE LET st == Get(val.o, "stacktrace")
         IN  IF st.k # "object"
             THEN << >>
             ELSE LET frames == Get(st.o, "frames")
                  IN  IF frames.k # "array" THEN << >> ELSE FramesOfArray(frames.a)

\* for _, v := range values
RECURSIVE FramesOfValues(_)
FramesOfValues(values) ==
    IF values = << >>
    THEN << >>
    ELSE FramesOfValue(Head(values)) \o FramesOfValues(Tail(values))

\* an extraction that looks into the data of every entry
FramesOfEntryAnyType(entry) ==
    IF entry.Data.k # "object"
    THEN << >>
    ELSE LET values == Get(entry.Data.o, "values")
         IN  IF values.k # "array" THEN << >> ELSE FramesOfValues(values.a)

\* one entry of the event: only the type "exception" is looked into
FramesOfEntry(entry) ==
    IF entry.Type # "exception"
    THEN << >>
    ELSE IF entry.Data.k # "object"
    THEN << >>
    ELSE LET values == Get(entry.Data.o, "values")
         IN  IF values.k # "array" THEN << >> ELSE FramesOfValues(values.a)

\* for _, entry := range wh.Data.Event.Entries
RECURSIVE FramesOfEntries(_)
FramesOfEntries(entries) ==
    IF entries = << >>
    THEN << >>
    ELSE FramesOfEntry(Head(entries)) \o FramesOfEntries(Tail(entries))

\* ParseWebhook: nil without an issue, otherwise the record copied from it,
\* with the frames of the event if there is one
ParseWebhook(wh) ==
    IF wh.Issue = <<>>
    THEN <<>>
    ELSE << [IssueID |-> wh.Issue[1].ID, ProjectSlug |-> wh.Issue[1].Slug,
             Frames |-> IF wh.Event # <<>>
                        THEN FramesOfEntries(wh.Event[1].Entries)
                        ELSE << >>] >>

\* cfg.RepoMappings, as parseRepoMappings leaves it
RepoMappings ==
    << [SentryProject |-> "test-project", Owner |-> "myorg", Repo |-> "myrepo"] >>

\* Config.GetRepoMapping: the index of the first mapping with exactly this
\* project, 0 for nil
GetRepoMapping(sentryProject) ==
    LET hits == { i \in 1..Len(RepoMappings) :
                    RepoMappings[i].SentryProject = sentryProject }
    IN  IF hits = {} THEN 0 ELSE CHOOSE i \in hits : \A k \in hits : i <= k

(***************************************************************************)
(* The remote repository behind the GitHub client                          *)
(* (internal/gitprovider/github.go).  A tree is identified by its content, *)
(* a commit by its position in the list of commits the remote stores; 0 is *)
(* no commit.                                                              *)
(***************************************************************************)
Paths == {"a.go", "b.go", "keep.go"}

\* the tree of the first commit: one regular file and one executable
BaseTree ==
    [p \in Paths |->
        IF p = "a.go"
        THEN << [Mode |-> "100644", Type |-> "blob", Content |-> "old"] >>
        ELSE IF p = "keep.go"
        THEN << [Mode |-> "100755", Type |-> "blob", Content |-> "old"] >>
        ELSE << >>]

Branches == {"main", "fix"}

RefNames == { "refs/heads/main", "refs/heads/fix" }

\* "refs/heads/" + branch
RefOf(branch) == IF branch = "main" THEN "refs/heads/main" ELSE "refs/heads/fix"

\* the remote as the calls find it: main at the first commit, the fix
\* branch there too, or not created yet
InitialRemotes ==
    { [refs |-> [r \in RefNames |-> IF r = "refs/heads/main" THEN 1 ELSE h],
       commits |-> << [Tree |-> BaseTree, Parents |-> << >>, Message |-> "init"] >>,
       trees |-> {BaseTree},
       prs |-> << >>] : h \in {0, 1} }

NoRemote == CHOOSE r \in InitialRemotes : r.refs["refs/heads/fix"] = 0

\* an error of the client, as the words of err.Error()
ErrAlreadyExists == << "POST", "422", "Reference already exists" >>
ErrNotFound == << "GET", "404", "Not Found" >>
ErrUnprocessable == << "POST", "422", "Unprocessable" >>
ErrTransport == << "connection", "reset" >>
NoError == << >>

\* strings.Contains(err.Error(), substr)
Contains(err, substr) == \E i \in 1..Len(err) : err[i] = substr

\* Git.GetRef: the reference with its object, or 404
GitGetRef(rem, ref) ==
    IF rem.refs[ref] = 0
    THEN [err |-> ErrNotFound, ref |-> [Ref |-> ref, SHA |-> 0], remote |-> rem]
    ELSE [err |-> NoError, ref |-> [Ref |-> ref, SHA |-> rem.refs[ref]], remote |-> rem]

\* Git.GetCommit: the commit object, or 404
GitGetCommit(rem, sha) ==
    IF sha \in 1..Len(rem.commits)
    THEN [err |-> NoError, commit |-> rem.commits[sha], remote |-> rem]
    ELSE [err |-> ErrNotFound, commit |-> rem.commits[1], remote |-> rem]

RECURSIVE Overlay(_, _)
\* the base tree with each entry, in order, put at its path
Overlay(tree, entries) ==
    IF entries = << >>
    THEN tree
    ELSE LET e == Head(entries)
         IN  Overlay([tree EXCEPT ![e.Path] =
                         << [Mode |-> e.Mode, Type |-> e.Type, Content |-> e.Content] >>],
                     Tail(entries))

\* Git.CreateTree(baseTree, entries): the remote stores the overlaid tree
GitCreateTree(rem, baseTree, entries) ==
    LET t == Overlay(baseTree, entries)
    IN  [err |-> NoError, tree |-> t, remote |-> [rem EXCEPT !.trees = @ \cup {t}]]

\* Git.CreateCommit: the remote stores a new commit object
GitCreateCommit(rem, commit) ==
    [err |-> NoError, sha |-> Len(rem.commits) + 1,
     remote |-> [rem EXCEPT !.commits = Append(@, commit)]]

RECURSIVE IsAncestor(_, _, _)
\* commit a is b or is reached from b through parents
IsAncestor(rem, a, b) ==
    \/ a = b
    \/ \E i \in 1..Len(rem.commits[b].Parents) :
          IsAncestor(rem, a, rem.commits[b].Parents[i])

\* Git.UpdateRef(ref, force): the reference moves to the object; without
\* force only when that is a fast-forward
GitUpdateRef(rem, ref, force) ==
    IF rem.refs[ref.Ref] = 0
    THEN [err |-> ErrUnprocessable, remote |-> rem]
    ELSE IF ~(ref.SHA \in 1..Len(rem.commits))
    THEN [err |-> ErrUnprocessable, remote |-> rem]
    ELSE IF ~force /\ ~IsAncestor(rem, rem.refs[ref.Ref], ref.SHA)
    THEN [err |-> ErrUnprocessable, remote |-> rem]
    ELSE [err |-> NoError, remote |-> [rem EXCEPT !.refs[ref.Ref] = ref.SHA]]

\* Git.CreateRef: a new reference to an existing object
GitCreateRef(rem, ref) ==
    IF rem.refs[ref.Ref] # 0
    THEN [err |-> ErrAlreadyExists, remote |-> rem]
    ELSE IF ~(ref.SHA \in 1..Len(rem.commits))
    THEN [err |-> ErrUnprocessable, remote |-> rem]
    ELSE [err |-> NoError, remote |-> [rem EXCEPT !.refs[ref.Ref] = ref.SHA]]

\* PullRequests.Create: refused when the head branch does not exist or a
\* pull request of the same head and base is already there; otherwise the
\* remote numbers and stores the pull request
PullRequestsCreate(rem, pr) ==
    IF \/ rem.refs[RefOf(pr.Head)] = 0
       \/ \E n \in 1..Len(rem.prs) :
             rem.prs[n].Head = pr.Head /\ rem.prs[n].Base = pr.Base
    THEN [err |-> ErrUnprocessable, number |-> 0, remote |-> rem]
    ELSE [err |-> NoError, number |-> Len(rem.prs) + 1,
          remote |-> [rem EXCEPT !.prs =
              Append(@, [Head |-> pr.Head, Base |-> pr.Base, Title |-> pr.Title,
                         Labels |-> << >>, Assignees |-> << >>])]]

\* Issues.AddLabelsToIssue
IssuesAddLabelsToIssue(rem, number, labels) ==
    IF number \in 1..Len(rem.prs)
    THEN [err |-> NoError, remote |-> [rem EXCEPT !.prs[number].Labels = @ \o labels]]
    ELSE [err |-> ErrNotFound, remote |-> rem]

\* Issues.AddAssignees
IssuesAddAssignees(rem, number, assignees) ==
    IF number \in 1..Len(rem.prs)
    THEN [err |-> NoError,
          remote |-> [rem EXCEPT !.prs[number].Assignees = @ \o assignees]]
    ELSE [err |-> ErrNotFound, remote |-> rem]

\* created.GetURL() and created.GetHTMLURL() of pull request number n
URLOf(n) == << "https://api.github.com/.../pulls", n >>
HTMLURLOf(n) == << "https://github.com/.../pull", n >>

(***************************************************************************)
(* State.                                                                  *)
(***************************************************************************)
VARIABLES
    conns,       \* the goroutine serving each connection: position, request, answer
    nextRid,     \* number of the next request the listener accepts
    queue,       \* jobQueue: the buffered channel of webhook.Job
    cancelled,   \* ctx.Done() is closed
    listening,   \* the server still accepts connections
    pcD,         \* position of the processJobs goroutine
    running,     \* the processJob calls in progress, each with its stage
    enqueued,    \* history: requests whose job was sent on the channel, in order
    dropped,     \* history: requests whose job hit the default branch
    dispatched,  \* history: requests whose job was passed to processJob, in order
    result,      \* history: how processJob ended for each request's job
    verifyCall,  \* a call of SignatureVerifier.Verify: receiver, arguments, result
    reader,      \* a bodyReader and what its caller has read from it so far
    remote,      \* the remote repository: references, commits, trees, pull requests
    prov,        \* the GitHubProvider call in progress and the calls that returned
    parseCall    \* a call of ParseWebhook: the webhook and the record returned

\* the state of the server
serverVars ==
    << conns, nextRid, queue, cancelled, listening, pcD, running,
       enqueued, dropped, dispatched, result >>

\* the state of the library calls studied on their own
libVars == << verifyCall, reader, remote, prov, parseCall >>

vars == << serverVars, libVars >>

Conns == {"c1", "c2"}
GateConns == {"c1"}

NoRequest == [method |-> "", sig |-> EmptySignature, readErr |-> FALSE, body |-> NotJSON]

\* r.Body: what reading the request body yields
NetworkBody(req) == [data |-> req.body, readErr |-> req.readErr]

IdleConn ==
    [pc |-> "idle", rid |-> 0, req |-> NoRequest, rbody |-> NetworkBody(NoRequest),
     status |-> NoStatus, invoked |-> FALSE, panicked |-> FALSE]

Range(s) == { s[i] : i \in 1..Len(s) }

\* no library call is being studied
NoVerifyCall ==
    [pc |-> "none", v |-> NewSignatureVerifier(Secret),
     signature |-> EmptySignature, body |-> NotJSON, ok |-> FALSE]

\* the struct literal &bodyReader{data: data}: pos is zero
bodyReader(data) == [data |-> data, pos |-> 0]

NoReader ==
    [pc |-> "none", b |-> bodyReader(<< >>), out |-> << >>, reads |-> 0,
     before |-> 0, n |-> 0, err |-> "nil"]

\* the local variables of a provider call, before any is assigned
NoLocals ==
    [ref |-> [Ref |-> "", SHA |-> 0], parentSHA |-> 0, baseTreeSHA |-> BaseTree,
     newTree |-> BaseTree, newCommit |-> 0, created |-> 0]

\* no provider call was made
NoProv ==
    [pc |-> "idle", op |-> "", args |-> << >>, local |-> NoLocals, log |-> << >>,
     failed |-> FALSE, watch |-> "refs/heads/fix", headBefore |-> 0,
     commitsBefore |-> 0, prsBefore |-> 0,
     returns |-> << >>]

\* no ParseWebhook call is being studied
NoParseCall ==
    [pc |-> "none", wh |-> [Action |-> "", Issue |-> <<>>, Event |-> <<>>],
     parsed |-> <<>>]

InitLib ==
    /\ verifyCall = NoVerifyCall
    /\ reader = NoReader
    /\ remote = NoRemote
    /\ prov = NoProv
    /\ parseCall = NoParseCall

InitServer ==
    /\ conns = [c \in Conns |-> IdleConn]
    /\ nextRid = 1
    /\ queue = << >>
    /\ cancelled = FALSE
    /\ listening = TRUE
    /\ pcD = "select"
    /\ running = {}
    /\ enqueued = << >>
    /\ dropped = {}
    /\ dispatched = << >>
    /\ result = [r \in 1..MaxRequests |-> "none"]

Init == InitServer /\ InitLib

(***************************************************************************)
(* The listener: http.Server hands each request to its own goroutine,      *)
(* which runs signatureVerifier.Middleware(webhookHandler).                *)
(***************************************************************************)
Accept(c, req) ==
    /\ listening
    /\ nextRid <= MaxRequests
    /\ conns[c].pc \in {"idle", "done"}
    /\ conns' = [conns EXCEPT ![c] =
                    [pc |-> "gate", rid |-> nextRid, req |-> req,
                     rbody |-> NetworkBody(req), status |-> NoStatus,
                     invoked |-> FALSE, panicked |-> FALSE]]
    /\ nextRid' = nextRid + 1
    /\ UNCHANGED libVars
    /\ UNCHANGED << queue, cancelled, listening, pcD, running,
                    enqueued, dropped, dispatched, result >>

\* io.ReadAll(r.Body)
ReadAll(rbody) == [err |-> rbody.readErr, data |-> rbody.data]

\* io.NopCloser(newBodyReader(body)): a reader over the buffered bytes
newBodyReader(data) == [data |-> data, readErr |-> FALSE]

\* a gate that only looks whether a signature is present
MiddlewareDecisionNoVerify(req) ==
    IF req.sig = EmptySignature
    THEN [next |-> FALSE, status |-> StatusUnauthorized]
    ELSE IF ReadAll(NetworkBody(req)).err
    THEN [next |-> FALSE, status |-> StatusBadRequest]
    ELSE [next |-> TRUE, status |-> NoStatus]

\* a gate that writes 401 for a bad signature and forgets to return
MiddlewareDecisionNoReturn(req) ==
    IF req.sig = EmptySignature
    THEN [next |-> FALSE, status |-> StatusUnauthorized]
    ELSE IF ReadAll(NetworkBody(req)).err
    THEN [next |-> FALSE, status |-> StatusBadRequest]
    ELSE IF ~Verify(req.sig, ReadAll(NetworkBody(req)).data)
    THEN [next |-> TRUE, status |-> StatusUnauthorized]
    ELSE [next |-> TRUE, status |-> NoStatus]

\* a gate that checks the signature of POST requests only
MiddlewareDecisionPostOnly(req) ==
    IF req.method # "POST" /\ ~ReadAll(NetworkBody(req)).err
    THEN [next |-> TRUE, status |-> NoStatus]
    ELSE IF req.sig = EmptySignature
    THEN [next |-> FALSE, status |-> StatusUnauthorized]
    ELSE IF ReadAll(NetworkBody(req)).err
    THEN [next |-> FALSE, status |-> StatusBadRequest]
    ELSE IF ~Verify(req.sig, ReadAll(NetworkBody(req)).data)
    THEN [next |-> FALSE, status |-> StatusUnauthorized]
    ELSE [next |-> TRUE, status |-> NoStatus]

\* the gate's decision: the status it writes, or next = TRUE when it calls
\* next.ServeHTTP
MiddlewareDecision(req) ==
    IF req.sig = EmptySignature
    THEN [next |-> FALSE, status |-> StatusUnauthorized]
    ELSE IF ReadAll(NetworkBody(req)).err
    THEN [next |-> FALSE, status |-> StatusBadRequest]
    ELSE IF ~Verify(req.sig, ReadAll(NetworkBody(req)).data)
    THEN [next |-> FALSE, status |-> StatusUnauthorized]
    ELSE [next |-> TRUE, status |-> NoStatus]

\* SignatureVerifier.Middleware up to its call of next.ServeHTTP, which is the
\* ServeHTTP step of the same goroutine
Middleware(c) ==
    /\ conns[c].pc = "gate"
    /\ LET k == conns[c]
           d == MiddlewareDecision(k.req) IN
        conns' = [conns EXCEPT ![c] =
            IF d.next
            THEN [k EXCEPT !.pc = "handler", !.invoked = TRUE, !.status = d.status,
                           !.rbody = newBodyReader(ReadAll(NetworkBody(k.req)).data)]
            ELSE [k EXCEPT !.pc = "done", !.status = d.status]]
    /\ UNCHANGED libVars
    /\ UNCHANGED << nextRid, queue, cancelled, listening, pcD, running,
                    enqueued, dropped, dispatched, result >>

(***************************************************************************)
(* Handler.ServeHTTP (internal/webhook/handler.go).                        *)
(***************************************************************************)
\* a handler without the method check
HandlerPathAnyMethod(method, rbody) ==
    IF ReadAll(rbody).err
    THEN [path |-> "answer", status |-> StatusBadRequest]
    ELSE LET u == Unmarshal(ReadAll(rbody).data) IN
        IF u.err
        THEN [path |-> "answer", status |-> StatusBadRequest]
        ELSE IF u.webhook.Issue = <<>>
        THEN [path |-> "panic", status |-> NoStatus]
        ELSE IF u.webhook.Action # "created" /\ u.webhook.Action # "triggered"
        THEN [path |-> "answer", status |-> StatusAccepted]
        ELSE IF ParseWebhook(u.webhook) = <<>>
        THEN [path |-> "answer", status |-> StatusAccepted]
        ELSE [path |-> "select", status |-> StatusAccepted]

\* a handler that acknowledges a body it could not read or decode
HandlerPathAckBadBody(method, rbody) ==
    IF method # "POST"
    THEN [path |-> "answer", status |-> StatusMethodNotAllowed]
    ELSE IF ReadAll(rbody).err
    THEN [path |-> "answer", status |-> StatusAccepted]
    ELSE LET u == Unmarshal(ReadAll(rbody).data) IN
        IF u.err
        THEN [path |-> "answer", status |-> StatusAccepted]
        ELSE IF u.webhook.Issue = <<>>
        THEN [path |-> "panic", status |-> NoStatus]
        ELSE IF u.webhook.Action # "created" /\ u.webhook.Action # "triggered"
        THEN [path |-> "answer", status |-> StatusAccepted]
        ELSE IF ParseWebhook(u.webhook) = <<>>
        THEN [path |-> "answer", status |-> StatusAccepted]
        ELSE [path |-> "select", status |-> StatusAccepted]

\* the path Handler.ServeHTTP takes up to the select statement
HandlerPath(method, rbody) ==
    IF method # "POST"
    THEN [path |-> "answer", status |-> StatusMethodNotAllowed]
    ELSE IF ReadAll(rbody).err
    THEN [path |-> "answer", status |-> StatusBadRequest]
    ELSE LET u == Unmarshal(ReadAll(rbody).data) IN
        IF u.err
        THEN [path |-> "answer", status |-> StatusBadRequest]
        \* log.Printf(..., webhook.Data.Issue.ID) dereferences the Issue pointer
        ELSE IF u.webhook.Issue = <<>>
        THEN [path |-> "panic", status |-> NoStatus]
        ELSE IF u.webhook.Action # "created" /\ u.webhook.Action # "triggered"
        THEN [path |-> "answer", status |-> StatusAccepted]
        ELSE IF ParseWebhook(u.webhook) = <<>>
        THEN [path |-> "answer", status |-> StatusAccepted]
        ELSE [path |-> "select", status |-> StatusAccepted]

\* Job{Webhook: &webhook, ParsedError: parsed}; rid and origin record which
\* request made it
NewJob(k) ==
    LET wh == Unmarshal(ReadAll(k.rbody).data).webhook IN
    [rid |-> k.rid, Webhook |-> wh, ParsedError |-> ParseWebhook(wh)[1],
     origin |-> k.req]

\* a handler that sends with a plain h.jobQueue <- job: it waits for room
SendBlocking(k) ==
    /\ Len(queue) < QueueCap
    /\ queue' = Append(queue, NewJob(k))
    /\ enqueued' = Append(enqueued, k.rid)
    /\ UNCHANGED dropped

\* a handler whose queue grows without limit
SendUnbounded(k) ==
    /\ queue' = Append(queue, NewJob(k))
    /\ enqueued' = Append(enqueued, k.rid)
    /\ UNCHANGED dropped

\* select { case h.jobQueue <- job: ...; default: ... }: the send is taken
\* when the buffer has room, the default otherwise
SendOrDrop(k) ==
    IF Len(queue) < QueueCap
    THEN /\ queue' = Append(queue, NewJob(k))
         /\ enqueued' = Append(enqueued, k.rid)
         /\ UNCHANGED dropped
    ELSE /\ dropped' = dropped \cup {k.rid}
         /\ UNCHANGED << queue, enqueued >>

\* Handler.ServeHTTP, run by the connection's goroutine after the gate
ServeHTTP(c) ==
    /\ conns[c].pc = "handler"
    /\ LET k == conns[c]
           p == HandlerPath(k.req.method, k.rbody) IN
        /\ conns' = [conns EXCEPT ![c] =
                        [k EXCEPT !.pc = "done", !.status = p.status,
                                  !.panicked = (p.path = "panic")]]
        /\ IF p.path = "select"
           THEN SendOrDrop(k)
           ELSE UNCHANGED << queue, enqueued, dropped >>
    /\ UNCHANGED libVars
    /\ UNCHANGED << nextRid, cancelled, listening, pcD, running, dispatched, result >>

(***************************************************************************)
(* The dispatcher goroutine: processJobs and processJob (main.go).         *)
(***************************************************************************)
\* a loop that starts each job with "go processJob(...)" and goes on receiving
DequeueAsync ==
    /\ pcD = "select"
    /\ queue # << >>
    /\ queue' = Tail(queue)
    /\ dispatched' = Append(dispatched, Head(queue).rid)
    /\ running' = running \cup
            {[job |-> Head(queue), stage |-> "lookup", afterCancel |-> cancelled]}
    /\ pcD' = "select"
    /\ UNCHANGED libVars
    /\ UNCHANGED << conns, nextRid, cancelled, listening, enqueued, dropped, result >>

\* a loop that takes the newest job of the queue instead of the oldest
DequeueNewest ==
    /\ pcD = "select"
    /\ queue # << >>
    /\ queue' = SubSeq(queue, 1, Len(queue) - 1)
    /\ dispatched' = Append(dispatched, queue[Len(queue)].rid)
    /\ running' = running \cup
            {[job |-> queue[Len(queue)], stage |-> "lookup", afterCancel |-> cancelled]}
    /\ pcD' = "processJob"
    /\ UNCHANGED libVars
    /\ UNCHANGED << conns, nextRid, cancelled, listening, enqueued, dropped, result >>

\* a loop that goes on receiving after it took the ctx.Done() case, until the
\* queue is empty
DequeueAfterReturn ==
    /\ pcD \in {"select", "returned"}
    /\ queue # << >>
    /\ queue' = Tail(queue)
    /\ dispatched' = Append(dispatched, Head(queue).rid)
    /\ running' = running \cup
            {[job |-> Head(queue), stage |-> "lookup", afterCancel |-> cancelled]}
    /\ pcD' = "processJob"
    /\ UNCHANGED libVars
    /\ UNCHANGED << conns, nextRid, cancelled, listening, enqueued, dropped, result >>

\* processJobs, case job := <-jobs: the receive is ready whenever the channel
\* holds a job, whether or not ctx.Done() is ready too (select picks among the
\* ready cases at random); processJob is then called in this goroutine.
\* afterCancel records whether ctx was already cancelled at the receive
Dequeue ==
    /\ pcD = "select"
    /\ queue # << >>
    /\ queue' = Tail(queue)
    /\ dispatched' = Append(dispatched, Head(queue).rid)
    /\ running' = running \cup
            {[job |-> Head(queue), stage |-> "lookup", afterCancel |-> cancelled]}
    /\ pcD' = "processJob"
    /\ UNCHANGED libVars
    /\ UNCHANGED << conns, nextRid, cancelled, listening, enqueued, dropped, result >>

\* a loop whose select has no case for ctx.Done(): it goes on waiting
CtxDoneIgnored ==
    /\ pcD = "select"
    /\ cancelled
    /\ pcD' = "select"
    /\ UNCHANGED libVars
    /\ UNCHANGED << conns, nextRid, queue, cancelled, listening, running,
                    enqueued, dropped, dispatched, result >>

\* processJobs, case <-ctx.Done(): return
CtxDone ==
    /\ pcD = "select"
    /\ cancelled
    /\ pcD' = "returned"
    /\ UNCHANGED libVars
    /\ UNCHANGED << conns, nextRid, queue, cancelled, listening, running,
                    enqueued, dropped, dispatched, result >>

\* processJob returns to the loop of processJobs with the given log line
Return(j, outcome) ==
    /\ running' = running \ {j}
    /\ result' = [result EXCEPT ![j.job.rid] = outcome]
    /\ pcD' = "select"

Advance(j, stage) ==
    /\ running' = (running \ {j}) \cup {[j EXCEPT !.stage = stage]}
    /\ UNCHANGED << result, pcD >>

\* a processJob that goes on to the pipeline whatever the lookup gives
LookupRepoIgnoreMiss(j) ==
    /\ j.stage = "lookup"
    /\ Advance(j, "run")
    /\ UNCHANGED libVars
    /\ UNCHANGED << conns, nextRid, queue, cancelled, listening,
                    enqueued, dropped, dispatched >>

\* processJob: cfg.GetRepoMapping and the nil check
LookupRepo(j) ==
    /\ j.stage = "lookup"
    /\ IF GetRepoMapping(j.job.ParsedError.ProjectSlug) = 0
       THEN Return(j, "no repo mapping, skipping")
       ELSE Advance(j, "run")
    /\ UNCHANGED libVars
    /\ UNCHANGED << conns, nextRid, queue, cancelled, listening,
                    enqueued, dropped, dispatched >>

\* pipeline.Run(ctx, ...): whether the fix-generation collaborator returned a
\* fix (TRUE) or an error (FALSE); either may happen, cancelled or not
PipelineRun(ctxDone) == BOOLEAN

\* a pipeline failure that ends the process loop instead of the job
RunPipelineFatal(j) ==
    /\ j.stage = "run"
    /\ \E ok \in PipelineRun(cancelled) :
        IF ok
        THEN Advance(j, "pr")
        ELSE /\ running' = running \ {j}
             /\ result' = [result EXCEPT ![j.job.rid] = "pipeline failed"]
             /\ pcD' = "returned"
    /\ UNCHANGED libVars
    /\ UNCHANGED << conns, nextRid, queue, cancelled, listening,
                    enqueued, dropped, dispatched >>

\* a processJob that puts the job back on the queue when the pipeline fails
RunPipelineRetry(j) ==
    /\ j.stage = "run"
    /\ \E ok \in PipelineRun(cancelled) :
        IF ok
        THEN Advance(j, "pr") /\ UNCHANGED queue
        ELSE /\ Return(j, "pipeline failed")
             /\ queue' = IF Len(queue) < QueueCap THEN Append(queue, j.job) ELSE queue
    /\ UNCHANGED libVars
    /\ UNCHANGED << conns, nextRid, cancelled, listening,
                    enqueued, dropped, dispatched >>

\* a processJob that logs the pipeline failure and goes on to the pull
\* request
RunPipelineLogAndGoOn(j) ==
    /\ j.stage = "run"
    /\ \E ok \in PipelineRun(cancelled) :
        /\ running' = (running \ {j}) \cup {[j EXCEPT !.stage = "pr"]}
        /\ result' = IF ok THEN result
                     ELSE [result EXCEPT ![j.job.rid] = "pipeline failed"]
        /\ UNCHANGED pcD
    /\ UNCHANGED libVars
    /\ UNCHANGED << conns, nextRid, queue, cancelled, listening,
                    enqueued, dropped, dispatched >>

\* processJob: fix, err := pipeline.Run(ctx, ...) and its error check
RunPipeline(j) ==
    /\ j.stage = "run"
    /\ \E ok \in PipelineRun(cancelled) :
        IF ok THEN Advance(j, "pr") ELSE Return(j, "pipeline failed")
    /\ UNCHANGED libVars
    /\ UNCHANGED << conns, nextRid, queue, cancelled, listening,
                    enqueued, dropped, dispatched >>

\* the error of one call of the remote API made with ctx (every provider
\* method hands its ctx to the client): the client refuses a call whose
\* context is already cancelled
RemoteCallErrors(ctxDone) ==
    IF ctxDone THEN {"context canceled"} ELSE {"nil", "remote error"}

\* agent.CreatePullRequest(ctx, provider, parsedError, fix): commit the file
\* changes, then create the pull request, both with ctx; the first error ends it
AgentCreatePullRequest(ctxDone) ==
    LET commit == RemoteCallErrors(ctxDone)
        pr == RemoteCallErrors(ctxDone)
    IN  (commit \ {"nil"}) \cup (IF "nil" \in commit THEN pr ELSE {})

\* processJob: prURL, err := agent.CreatePullRequest(ctx, ...) and its error
\* check; ctx is the context main cancels on shutdown
CreatePullRequest(j) ==
    /\ j.stage = "pr"
    /\ \E err \in AgentCreatePullRequest(cancelled) :
        IF err = "nil"
        THEN Return(j, "created PR")
        ELSE Return(j, IF err = "context canceled"
                       THEN "failed to create PR: context canceled"
                       ELSE "failed to create PR")
    /\ UNCHANGED libVars
    /\ UNCHANGED << conns, nextRid, queue, cancelled, listening,
                    enqueued, dropped, dispatched >>

(***************************************************************************)
(* The shutdown goroutine of main.                                         *)
(***************************************************************************)
\* <-sigChan; cancel()
Cancel ==
    /\ ~cancelled
    /\ cancelled' = TRUE
    /\ UNCHANGED libVars
    /\ UNCHANGED << conns, nextRid, queue, listening, pcD, running,
                    enqueued, dropped, dispatched, result >>

\* server.Shutdown(shutdownCtx): the listener closes, the requests being
\* served are left to finish
Shutdown ==
    /\ cancelled
    /\ listening
    /\ listening' = FALSE
    /\ UNCHANGED libVars
    /\ UNCHANGED << conns, nextRid, queue, cancelled, pcD, running,
                    enqueued, dropped, dispatched, result >>

\* one step of a processJob call in progress
processJob ==
    \E j \in running : LookupRepo(j) \/ RunPipeline(j) \/ CreatePullRequest(j)

\* the program: concurrent connections, the dispatcher, the shutdown goroutine
Next ==
    \/ \E c \in Conns : \E req \in CoreRequests : Accept(c, req)
    \/ \E c \in Conns : Middleware(c)
    \/ \E c \in Conns : ServeHTTP(c)
    \/ Dequeue
    \/ CtxDone
    \/ processJob
    \/ Cancel
    \/ Shutdown

Spec == Init /\ [][Next]_vars

\* the wired endpoint serving one request at a time, with every request,
\* while no shutdown signal arrives
NextGate ==
    \/ \E c \in GateConns : \E req \in Requests : Accept(c, req)
    \/ \E c \in GateConns : Middleware(c)
    \/ \E c \in GateConns : ServeHTTP(c)
    \/ Dequeue
    \/ processJob

SpecGate == Init /\ [][NextGate]_vars

\* one connection at a time with the dispatcher and the shutdown goroutine;
\* the dispatcher goroutine is scheduled whenever it can run, and every call
\* processJob makes returns
NextFair ==
    \/ \E c \in GateConns : \E req \in CoreRequests : Accept(c, req)
    \/ \E c \in GateConns : Middleware(c)
    \/ \E c \in GateConns : ServeHTTP(c)
    \/ Dequeue
    \/ CtxDone
    \/ processJob
    \/ Cancel
    \/ Shutdown

SpecFair ==
    Init /\ [][NextFair]_vars /\ WF_vars(Dequeue) /\ WF_vars(processJob)

\* the same program where every call processJob makes returns and the select
\* of processJobs, which picks among its ready cases at random, does not pass
\* over the ready ctx.Done() case for ever
SpecTerm ==
    Init /\ [][NextFair]_vars /\ WF_vars(processJob) /\ SF_vars(CtxDone)

(***************************************************************************)
(* SignatureVerifier.Verify on its own: a verifier built from any secret   *)
(* is given any signature and any body.                                    *)
(***************************************************************************)
\* the secrets a verifier or a sender may hold
VerifySecrets == {Secret, "wrong", ""}

VerifyBodies == GetBodies

\* the signature strings: none, the one of the signature test that is no
\* MAC, the lowercase hexadecimal MAC of every body under every secret, and
\* the digest under the right secret in upper case
VerifySignatures ==
    { EmptySignature, <<"invalid">> }
    \cup { ComputeSignature(k, b) : k \in VerifySecrets, b \in VerifyBodies }
    \cup { <<"HEX", HMACSHA256(Secret, b)>> : b \in VerifyBodies }

InitVerify ==
    /\ InitServer
    /\ reader = NoReader
    /\ remote = NoRemote
    /\ prov = NoProv
    /\ parseCall = NoParseCall
    /\ verifyCall \in
         { [pc |-> "call", v |-> NewSignatureVerifier(k), signature |-> s,
            body |-> b, ok |-> FALSE] :
             k \in VerifySecrets, s \in VerifySignatures, b \in VerifyBodies }

\* the call returns
VerifyCall ==
    /\ verifyCall.pc = "call"
    /\ verifyCall' =
         [verifyCall EXCEPT
            !.pc = "returned",
            !.ok = SignatureVerifier_Verify(verifyCall.v, verifyCall.signature,
                                            verifyCall.body)]
    /\ UNCHANGED << serverVars, reader, remote, prov, parseCall >>

NextVerify == VerifyCall

SpecVerify == InitVerify /\ [][NextVerify]_vars

(***************************************************************************)
(* bodyReader on its own: the reader the gate puts in r.Body, read by a    *)
(* caller that passes buffers of any non-zero length.                      *)
(***************************************************************************)
Bytes == {1, 2}

\* the byte slices of length at most n
ByteSeqs(n) == UNION { [1..k -> Bytes] : k \in 0..n }

\* make([]byte, size): a zeroed buffer
MakeBuf(size) == [i \in 1..size |-> 0]

Min(a, b) == IF a <= b THEN a ELSE b

\* the builtin copy(dst, src): the number of bytes copied and dst afterwards
copy(dst, src) ==
    LET n == Min(Len(dst), Len(src))
    IN  [n |-> n, dst |-> [i \in 1..Len(dst) |-> IF i <= n THEN src[i] ELSE dst[i]]]

\* a Read that copies from the start of the data on every call
bodyReader_ReadFromStart(b, p) ==
    IF b.pos >= Len(b.data)
    THEN [b |-> b, p |-> p, n |-> 0, err |-> "EOF"]
    ELSE LET c == copy(p, b.data)
         IN  [b |-> [b EXCEPT !.pos = @ + c.n], p |-> c.dst, n |-> c.n, err |-> "nil"]

\* (b *bodyReader) Read(p): the reader and the buffer afterwards, n and err
bodyReader_Read(b, p) ==
    IF b.pos >= Len(b.data)
    THEN [b |-> b, p |-> p, n |-> 0, err |-> "EOF"]
    ELSE LET c == copy(p, SubSeq(b.data, b.pos + 1, Len(b.data)))
         IN  [b |-> [b EXCEPT !.pos = @ + c.n], p |-> c.dst, n |-> c.n, err |-> "nil"]

InitReader ==
    /\ InitServer
    /\ verifyCall = NoVerifyCall
    /\ remote = NoRemote
    /\ prov = NoProv
    /\ parseCall = NoParseCall
    /\ reader \in { [NoReader EXCEPT !.pc = "open", !.b = bodyReader(d)] :
                      d \in ByteSeqs(MaxBodyLen) }

\* the caller reads once into a fresh buffer of the given size and keeps
\* p[:n]
Read(size) ==
    /\ reader.pc = "open"
    /\ reader.reads < MaxReads
    /\ LET r == bodyReader_Read(reader.b, MakeBuf(size))
       IN  reader' = [reader EXCEPT
                         !.b = r.b,
                         !.before = Len(reader.out),
                         !.out = reader.out \o SubSeq(r.p, 1, r.n),
                         !.reads = @ + 1,
                         !.n = r.n,
                         !.err = r.err]
    /\ UNCHANGED << serverVars, verifyCall, remote, prov, parseCall >>

NextReader == \E size \in 1..MaxBufLen : Read(size)

SpecReader == InitReader /\ [][NextReader]_vars

(***************************************************************************)
(* GitHubProvider on its own: calls made one after the other by the only   *)
(* writer of the remote.  Every client call may fail on the way (network,  *)
(* authorization); a call that fails leaves the remote as it was.          *)
(***************************************************************************)
Contents == {"v1", "v2"}

\* FileChange.Mode as callers set it: left empty or executable
Modes == {"", "100755"}

\* the changes callers ask for: new content for the file that exists, with
\* the mode left empty, and a file that does not exist yet, with either mode
FileChanges ==
    { [Path |-> "a.go", Content |-> c, Mode |-> ""] : c \in Contents }
    \cup { [Path |-> "b.go", Content |-> "v1", Mode |-> m] : m \in Modes }

\* the files argument: one change, or two changes of different paths
FileLists ==
    { << f >> : f \in FileChanges }
    \cup { l \in { << f, g >> : f \in FileChanges, g \in FileChanges } :
               l[1].Path # l[2].Path }

\* the result of a client call: the remote's answer, or a failure on the way
RemoteCall(rem, answer, fault) ==
    IF fault THEN [answer EXCEPT !.err = ErrTransport, !.remote = rem] ELSE answer

\* the call in progress with one more client call in its log
Logged(p, step, err) ==
    [p EXCEPT !.log = Append(@, [step |-> step, ok |-> err = NoError, err |-> err]),
              !.failed = @ \/ err # NoError]

\* the call returns: what it returned and the branch head at that moment
Returned(p, rem, value, err) ==
    [p EXCEPT
       !.pc = "idle",
       !.returns = Append(@,
           [op |-> p.op, args |-> p.args, value |-> value, err |-> err,
            log |-> p.log, failed |-> p.failed, headBefore |-> p.headBefore,
            commitsBefore |-> p.commitsBefore, prsBefore |-> p.prsBefore,
            headAfter |-> rem.refs[p.watch]])]

\* a provider that repeats a client call that failed
OnErrorRetry(p, rem, msg, err) == [p EXCEPT !.failed = TRUE]

\* if err != nil { return "", fmt.Errorf(msg+": %w", err) }
OnError(p, rem, msg, err) == Returned(p, rem, 0, << msg >> \o err)

\* a loop over files that passes every mode on as it is
RECURSIVE TreeEntriesKeepMode(_)
TreeEntriesKeepMode(files) ==
    IF files = << >>
    THEN << >>
    ELSE LET file == Head(files)
         IN  << [Path |-> file.Path, Mode |-> file.Mode, Type |-> "blob",
                 Content |-> file.Content] >> \o TreeEntriesKeepMode(Tail(files))

\* the loop over files: every change becomes a blob entry, an empty mode
\* becomes 100644
RECURSIVE TreeEntries(_)
TreeEntries(files) ==
    IF files = << >>
    THEN << >>
    ELSE LET file == Head(files)
             mode == IF file.Mode = "" THEN "100644" ELSE file.Mode
         IN  << [Path |-> file.Path, Mode |-> mode, Type |-> "blob",
                 Content |-> file.Content] >> \o TreeEntries(Tail(files))

\* a caller starts CommitFiles(ctx, branch, files, message)
StartCommitFiles(branch, files) ==
    /\ prov.pc = "idle"
    /\ Len(prov.returns) < MaxCalls
    /\ prov' = [prov EXCEPT
                   !.pc = "get-ref",
                   !.op = "CommitFiles",
                   !.args = [branch |-> branch, files |-> files, message |-> "fix"],
                   !.local = NoLocals,
                   !.log = << >>,
                   !.failed = FALSE,
                   !.watch = RefOf(branch),
                   !.headBefore = remote.refs[RefOf(branch)],
                   !.commitsBefore = Len(remote.commits),
                   !.prsBefore = Len(remote.prs)]
    /\ UNCHANGED << serverVars, verifyCall, reader, remote, parseCall >>

\* ref, _, err := g.client.Git.GetRef(...); parentSHA := ref.GetObject().GetSHA()
CommitFiles_GetRef ==
    /\ prov.pc = "get-ref"
    /\ \E fault \in BOOLEAN :
         LET r == RemoteCall(remote, GitGetRef(remote, RefOf(prov.args.branch)), fault)
             p == Logged(prov, "get-ref", r.err)
         IN  /\ remote' = r.remote
             /\ prov' = IF r.err # NoError
                        THEN OnError(p, r.remote, "failed to get branch ref", r.err)
                        ELSE [p EXCEPT !.pc = "get-commit",
                                       !.local.ref = r.ref,
                                       !.local.parentSHA = r.ref.SHA]
    /\ UNCHANGED << serverVars, verifyCall, reader, parseCall >>

\* parentCommit, _, err := g.client.Git.GetCommit(...);
\* baseTreeSHA := parentCommit.GetTree().GetSHA()
CommitFiles_GetCommit ==
    /\ prov.pc = "get-commit"
    /\ \E fault \in BOOLEAN :
         LET r == RemoteCall(remote, GitGetCommit(remote, prov.local.parentSHA), fault)
             p == Logged(prov, "get-commit", r.err)
         IN  /\ remote' = r.remote
             /\ prov' = IF r.err # NoError
                        THEN OnError(p, r.remote, "failed to get parent commit", r.err)
                        ELSE [p EXCEPT !.pc = "create-tree",
                                       !.local.baseTreeSHA = r.commit.Tree]
    /\ UNCHANGED << serverVars, verifyCall, reader, parseCall >>

\* newTree, _, err := g.client.Git.CreateTree(..., baseTreeSHA, treeEntries)
CommitFiles_CreateTree ==
    /\ prov.pc = "create-tree"
    /\ \E fault \in BOOLEAN :
         LET r == RemoteCall(remote,
                             GitCreateTree(remote, prov.local.baseTreeSHA,
                                           TreeEntries(prov.args.files)),
                             fault)
             p == Logged(prov, "create-tree", r.err)
         IN  /\ remote' = r.remote
             /\ prov' = IF r.err # NoError
                        THEN OnError(p, r.remote, "failed to create tree", r.err)
                        ELSE [p EXCEPT !.pc = "create-commit", !.local.newTree = r.tree]
    /\ UNCHANGED << serverVars, verifyCall, reader, parseCall >>

\* commit := &github.Commit{Message, Tree: newTree, Parents: {parentSHA}}
NewCommitObject(message, newTree, parentSHA) ==
    [Tree |-> newTree, Parents |-> << parentSHA >>, Message |-> message]

\* newCommit, _, err := g.client.Git.CreateCommit(..., commit, nil)
CommitFiles_CreateCommit ==
    /\ prov.pc = "create-commit"
    /\ \E fault \in BOOLEAN :
         LET r == RemoteCall(remote,
                             GitCreateCommit(remote,
                                 NewCommitObject(prov.args.message, prov.local.newTree,
                                                 prov.local.parentSHA)),
                             fault)
             p == Logged(prov, "create-commit", r.err)
         IN  /\ remote' = r.remote
             /\ prov' = IF r.err # NoError
                        THEN OnError(p, r.remote, "failed to create commit", r.err)
                        ELSE [p EXCEPT !.pc = "update-ref", !.local.newCommit = r.sha]
    /\ UNCHANGED << serverVars, verifyCall, reader, parseCall >>

\* an update that sends the reference as it was read
RefToUpdateUnassigned(ref, newCommit) == ref

\* ref.Object.SHA = newCommit.SHA
RefToUpdate(ref, newCommit) == [ref EXCEPT !.SHA = newCommit]

\* an update of the reference with force set
CommitFiles_UpdateRefForced ==
    /\ prov.pc = "update-ref"
    /\ \E fault \in BOOLEAN :
         LET r == RemoteCall(remote,
                             GitUpdateRef(remote,
                                 RefToUpdate(prov.local.ref, prov.local.newCommit),
                                 TRUE),
                             fault)
             p == Logged(prov, "update-ref", r.err)
         IN  /\ remote' = r.remote
             /\ prov' = IF r.err # NoError
                        THEN OnError(p, r.remote, "failed to update branch ref", r.err)
                        ELSE Returned(p, r.remote, p.local.newCommit, NoError)
    /\ UNCHANGED << serverVars, verifyCall, reader, parseCall >>

\* _, _, err = g.client.Git.UpdateRef(..., ref, false); return newCommit.GetSHA(), nil
CommitFiles_UpdateRef ==
    /\ prov.pc = "update-ref"
    /\ \E fault \in BOOLEAN :
         LET r == RemoteCall(remote,
                             GitUpdateRef(remote,
                                 RefToUpdate(prov.local.ref, prov.local.newCommit),
                                 FALSE),
                             fault)
             p == Logged(prov, "update-ref", r.err)
         IN  /\ remote' = r.remote
             /\ prov' = IF r.err # NoError
                        THEN OnError(p, r.remote, "failed to update branch ref", r.err)
                        ELSE Returned(p, r.remote, p.local.newCommit, NoError)
    /\ UNCHANGED << serverVars, verifyCall, reader, parseCall >>

\* one step of a CommitFiles call in progress
CommitFiles ==
    \/ CommitFiles_GetRef
    \/ CommitFiles_GetCommit
    \/ CommitFiles_CreateTree
    \/ CommitFiles_CreateCommit
    \/ CommitFiles_UpdateRef

InitProvider ==
    /\ InitServer
    /\ verifyCall = NoVerifyCall
    /\ reader = NoReader
    /\ remote \in InitialRemotes
    /\ prov = NoProv
    /\ parseCall = NoParseCall

NextCommit ==
    \/ \E files \in FileLists : StartCommitFiles("fix", files)
    \/ CommitFiles

SpecCommit == InitProvider /\ [][NextCommit]_vars

(***************************************************************************)
(* One CommitFiles call on a branch that another writer pushes to.         *)
(***************************************************************************)
\* the commits the other writer has pushed
OtherCommits(rem) ==
    { sha \in 1..Len(rem.commits) : rem.commits[sha].Message = "other" }

\* another writer pushes a commit of its own on top of the branch head
OtherPush ==
    /\ remote.refs["refs/heads/fix"] # 0
    /\ Cardinality(OtherCommits(remote)) < MaxOtherPushes
    /\ LET head == remote.refs["refs/heads/fix"]
           t == Overlay(remote.commits[head].Tree,
                        << [Path |-> "keep.go", Mode |-> "100755", Type |-> "blob",
                            Content |-> "theirs"] >>)
           c == [Tree |-> t, Parents |-> << head >>, Message |-> "other"]
       IN  remote' = [remote EXCEPT !.trees = @ \cup {t},
                                    !.commits = Append(@, c),
                                    !.refs["refs/heads/fix"] = Len(remote.commits) + 1]
    /\ UNCHANGED << serverVars, verifyCall, reader, prov, parseCall >>

NextShared ==
    \/ \E files \in FileLists : prov.returns = << >> /\ StartCommitFiles("fix", files)
    \/ CommitFiles
    \/ OtherPush

SpecShared == InitProvider /\ [][NextShared]_vars

\* a caller starts CreateBranch(ctx, name, baseSHA)
StartCreateBranch(name, baseSHA) ==
    /\ prov.pc = "idle"
    /\ Len(prov.returns) < MaxCalls
    /\ prov' = [prov EXCEPT
                   !.pc = "create-ref",
                   !.op = "CreateBranch",
                   !.args = [name |-> name, baseSHA |-> baseSHA],
                   !.local = NoLocals,
                   !.log = << >>,
                   !.failed = FALSE,
                   !.watch = RefOf(name),
                   !.headBefore = remote.refs[RefOf(name)],
                   !.commitsBefore = Len(remote.commits),
                   !.prsBefore = Len(remote.prs)]
    /\ UNCHANGED << serverVars, verifyCall, reader, remote, parseCall >>

\* a CreateBranch that returns every failure of the client
CreateBranchResultStrict(name, err) ==
    IF err # NoError THEN << "failed to create branch", name >> \o err ELSE NoError

\* what CreateBranch returns for the error of Git.CreateRef
CreateBranchResult(name, err) ==
    IF err # NoError
    THEN IF Contains(err, "Reference already exists")
         THEN NoError
         ELSE << "failed to create branch", name >> \o err
    ELSE NoError

\* a CreateBranch that resets a branch that exists to the base SHA
CreateBranch_CreateOrReset ==
    /\ prov.pc = "create-ref"
    /\ \E fault \in BOOLEAN :
         LET ref == [Ref |-> RefOf(prov.args.name), SHA |-> prov.args.baseSHA]
             c == RemoteCall(remote, GitCreateRef(remote, ref), fault)
             r == IF c.err = ErrAlreadyExists THEN GitUpdateRef(remote, ref, TRUE) ELSE c
             p == Logged(prov, "create-ref", c.err)
         IN  /\ remote' = r.remote
             /\ prov' = Returned(p, r.remote, 0, CreateBranchResult(p.args.name, c.err))
    /\ UNCHANGED << serverVars, verifyCall, reader, parseCall >>

\* _, _, err := g.client.Git.CreateRef(ctx, g.owner, g.repo, ref) and the
\* return
CreateBranch_CreateRef ==
    /\ prov.pc = "create-ref"
    /\ \E fault \in BOOLEAN :
         LET ref == [Ref |-> RefOf(prov.args.name), SHA |-> prov.args.baseSHA]
             r == RemoteCall(remote, GitCreateRef(remote, ref), fault)
             p == Logged(prov, "create-ref", r.err)
         IN  /\ remote' = r.remote
             /\ prov' = Returned(p, r.remote, 0, CreateBranchResult(p.args.name, r.err))
    /\ UNCHANGED << serverVars, verifyCall, reader, parseCall >>

\* the base SHAs callers pass: the first commit and one the remote lacks
BaseSHAs == {1, 2}

NextBranch ==
    \/ \E name \in Branches, baseSHA \in BaseSHAs : StartCreateBranch(name, baseSHA)
    \/ CreateBranch_CreateRef

SpecBranch == InitProvider /\ [][NextBranch]_vars

\* a remote whose main branch has moved on to a second commit, the fix branch
\* being absent, at the first commit or at the second
AdvancedRemotes ==
    LET t == Overlay(BaseTree,
                     << [Path |-> "a.go", Mode |-> "100644", Type |-> "blob",
                         Content |-> "v0"] >>)
    IN  { [refs |-> [r \in RefNames |-> IF r = "refs/heads/main" THEN 2 ELSE h],
           commits |-> << [Tree |-> BaseTree, Parents |-> << >>, Message |-> "init"],
                          [Tree |-> t, Parents |-> << 1 >>, Message |-> "second"] >>,
           trees |-> {BaseTree, t},
           prs |-> << >>] : h \in {0, 1, 2} }

InitAdvanced ==
    /\ InitServer
    /\ verifyCall = NoVerifyCall
    /\ reader = NoReader
    /\ remote \in AdvancedRemotes
    /\ prov = NoProv
    /\ parseCall = NoParseCall

\* CreateBranch calls on a remote where both base SHAs are commits
SpecExisting == InitAdvanced /\ [][NextBranch]_vars

\* the requests callers make: the fix branch into main, with and without
\* labels and assignees
PRRequests ==
    { [Title |-> "fix", Head |-> "fix", Base |-> "main", Labels |-> l, Assignees |-> a] :
        l \in { << >>, << "sentry-fix" >> }, a \in { << >>, << "dev" >> } }

\* a caller starts CreatePullRequest(ctx, req)
StartCreatePullRequest(req) ==
    /\ prov.pc = "idle"
    /\ Len(prov.returns) < MaxCalls
    /\ prov' = [prov EXCEPT
                   !.pc = "create-pr",
                   !.op = "CreatePullRequest",
                   !.args = req,
                   !.local = NoLocals,
                   !.log = << >>,
                   !.failed = FALSE,
                   !.watch = RefOf(req.Head),
                   !.headBefore = remote.refs[RefOf(req.Head)],
                   !.commitsBefore = Len(remote.commits),
                   !.prsBefore = Len(remote.prs)]
    /\ UNCHANGED << serverVars, verifyCall, reader, remote, parseCall >>

\* return &PRResponse{Number, URL, HTMLURL}, nil
ReturnPRResponse(p, rem) ==
    Returned(p, rem,
             << [Number |-> p.local.created, URL |-> URLOf(p.local.created),
                 HTMLURL |-> HTMLURLOf(p.local.created)] >>,
             NoError)

\* the code after PullRequests.Create: the labels if any, else the
\* assignees if any, else the return
AfterCreate(p, rem) ==
    IF Len(p.args.Labels) > 0
    THEN [p EXCEPT !.pc = "add-labels"]
    ELSE IF Len(p.args.Assignees) > 0
    THEN [p EXCEPT !.pc = "add-assignees"]
    ELSE ReturnPRResponse(p, rem)

\* the code after the labels
AfterLabels(p, rem) ==
    IF Len(p.args.Assignees) > 0
    THEN [p EXCEPT !.pc = "add-assignees"]
    ELSE ReturnPRResponse(p, rem)

\* created, _, err := g.client.PullRequests.Create(ctx, g.owner, g.repo, pr)
CreatePullRequest_Create ==
    /\ prov.pc = "create-pr"
    /\ \E fault \in BOOLEAN :
         LET r == RemoteCall(remote, PullRequestsCreate(remote, prov.args), fault)
             p == Logged(prov, "create-pr", r.err)
         IN  /\ remote' = r.remote
             /\ prov' = IF r.err # NoError
                        THEN Returned(p, r.remote, << >>,
                                      << "failed to create pull request" >> \o r.err)
                        ELSE AfterCreate([p EXCEPT !.local.created = r.number], r.remote)
    /\ UNCHANGED << serverVars, verifyCall, reader, parseCall >>

\* a provider for which a failed side call ends the operation
OnWarningFatal(p, next, rem, msg, err) == Returned(p, rem, << >>, << msg >> \o err)

\* fmt.Printf("warning: ...: %v\n", err): the call goes on
OnWarning(p, next, rem, msg, err) == next

\* g.client.Issues.AddLabelsToIssue(..., created.GetNumber(), req.Labels)
CreatePullRequest_AddLabels ==
    /\ prov.pc = "add-labels"
    /\ \E fault \in BOOLEAN :
         LET r == RemoteCall(remote,
                             IssuesAddLabelsToIssue(remote, prov.local.created,
                                                    prov.args.Labels),
                             fault)
             p == Logged(prov, "add-labels", r.err)
             next == AfterLabels(p, r.remote)
         IN  /\ remote' = r.remote
             /\ prov' = IF r.err # NoError
                        THEN OnWarning(p, next, r.remote, "failed to add labels", r.err)
                        ELSE next
    /\ UNCHANGED << serverVars, verifyCall, reader, parseCall >>

\* g.client.Issues.AddAssignees(..., created.GetNumber(), req.Assignees)
CreatePullRequest_AddAssignees ==
    /\ prov.pc = "add-assignees"
    /\ \E fault \in BOOLEAN :
         LET r == RemoteCall(remote,
                             IssuesAddAssignees(remote, prov.local.created,
                                                prov.args.Assignees),
                             fault)
             p == Logged(prov, "add-assignees", r.err)
             next == ReturnPRResponse(p, r.remote)
         IN  /\ remote' = r.remote
             /\ prov' = IF r.err # NoError
                        THEN OnWarning(p, next, r.remote, "failed to add assignees", r.err)
                        ELSE next
    /\ UNCHANGED << serverVars, verifyCall, reader, parseCall >>

NextPR ==
    \/ \E req \in PRRequests : StartCreatePullRequest(req)
    \/ CreatePullRequest_Create
    \/ CreatePullRequest_AddLabels
    \/ CreatePullRequest_AddAssignees

SpecPR == InitProvider /\ [][NextPR]_vars

(***************************************************************************)
(* ParseWebhook on its own: a webhook with an issue and any event.         *)
(***************************************************************************)
\* the elements a frames array may hold: a frame with every field, one with
\* some, one without inApp, one whose inApp is not a bool, and a value that
\* is no object
FrameValues ==
    { JObject([inApp |-> JBool(TRUE), filename |-> JString("a.go"),
               function |-> JString("f"), lineNo |-> JNumber(10)]),
      JObject([inApp |-> JBool(FALSE), filename |-> JString("b.go")]),
      JObject([function |-> JString("g")]),
      JObject([inApp |-> JString("true"), filename |-> JString("c.go")]),
      JString("frame") }

FrameArrays == UNION { [1..n -> FrameValues] : n \in 0..MaxFrames }

\* the values of the key stacktrace: with a frames array, with frames that
\* are no array, and none
Stacktraces ==
    { JObject([frames |-> JArray(l)]) : l \in FrameArrays }
    \cup { JObject([frames |-> JString("none")]), JNull }

\* the elements of the values array of an entry
ExceptionValues ==
    { JObject([type |-> JString("TypeError"), stacktrace |-> st]) : st \in Stacktraces }
    \cup { JString("value") }

\* exceptions with one frame, for entries with two of them
OneFrameValues ==
    { JObject([type |-> JString("TypeError"),
               stacktrace |-> JObject([frames |-> JArray(<< f >>)])]) :
        f \in FrameValues }

\* Entry.Data: an object with one or two values, with values that are no
\* array, and a value that is no object
EntryData ==
    { JObject([values |-> JArray(<< v >>)]) : v \in ExceptionValues }
    \cup { JObject([values |-> JArray(<< v, w >>)]) :
             v \in OneFrameValues, w \in OneFrameValues }
    \cup { JObject([values |-> JString("none")]), JString("data") }

EntryTypes == {"exception", "breadcrumbs"}

Entries == { [Type |-> t, Data |-> d] : t \in EntryTypes, d \in EntryData }

\* Event.Entries: none, one or two entries
EntryLists ==
    { << >> } \cup { << e >> : e \in Entries }
    \cup { << e, g >> : e \in Entries, g \in Entries }

\* Data.Event: nil or an event
Events == { << >> } \cup { << [Entries |-> l] >> : l \in EntryLists }

InitParse ==
    /\ InitServer
    /\ verifyCall = NoVerifyCall
    /\ reader = NoReader
    /\ remote = NoRemote
    /\ prov = NoProv
    /\ parseCall \in
         { [pc |-> "call",
            wh |-> [Action |-> "created",
                    Issue |-> << [ID |-> "12345", Slug |-> "test-project"] >>,
                    Event |-> e],
            parsed |-> <<>>] : e \in Events }

\* the call returns
ParseCall ==
    /\ parseCall.pc = "call"
    /\ parseCall' = [parseCall EXCEPT !.pc = "returned",
                                      !.parsed = ParseWebhook(parseCall.wh)]
    /\ UNCHANGED << serverVars, verifyCall, reader, remote, prov >>

NextParse == ParseCall

SpecParse == InitParse /\ [][NextParse]_vars

(***************************************************************************)
(* Handler.ServeHTTP on its own: the handler is called with the request as *)
(* it arrives, no gate in front of it, and nothing receives from its queue *)
(* (as in handler_test.go).                                                *)
(***************************************************************************)
\* the requests given to the handler; it never looks at the signature header
HandlerRequests == { req \in Requests : req.sig = EmptySignature }

\* handler.ServeHTTP(rr, req): the handler reads r.Body itself
AcceptDirect(c, req) ==
    /\ nextRid <= MaxRequests
    /\ conns[c].pc \in {"idle", "done"}
    /\ conns' = [conns EXCEPT ![c] =
                    [pc |-> "handler", rid |-> nextRid, req |-> req,
                     rbody |-> NetworkBody(req), status |-> NoStatus,
                     invoked |-> TRUE, panicked |-> FALSE]]
    /\ nextRid' = nextRid + 1
    /\ UNCHANGED libVars
    /\ UNCHANGED << queue, cancelled, listening, pcD, running,
                    enqueued, dropped, dispatched, result >>

NextHandler ==
    \/ \E c \in Conns : \E req \in HandlerRequests : AcceptDirect(c, req)
    \/ \E c \in Conns : ServeHTTP(c)

SpecHandler == Init /\ [][NextHandler]_vars

(***************************************************************************)
(* Properties.                                                             *)
(***************************************************************************)
\* the requests in the channel and in processJob
QueuedRids == { queue[i].rid : i \in 1..Len(queue) }
RunningRids == { j.job.rid : j \in running }

\* a request the handler turns into a job: a POST of JSON with action created
\* or triggered and an issue object
IsEvent(req) ==
    /\ req.method = "POST"
    /\ ~req.readErr
    /\ req.body.json
    /\ req.body.action \in {"created", "triggered"}
    /\ req.body.issue # << >>

\* C1: with the queue at capacity, the handler of a further valid
\* created/triggered webhook can take its step at once (it does not wait for
\* the dispatcher), that step answers 202 and leaves the queue as it was, and
\* a job dropped this way is never in the channel, in processJob, or among
\* the jobs the dispatcher was handed.
C1_EnqueueNonBlocking ==
    /\ [](\A c \in Conns : conns[c].pc = "handler" => ENABLED ServeHTTP(c))
    /\ [][\A c \in Conns :
            ( /\ conns[c].pc = "handler"
              /\ conns'[c].pc = "done"
              /\ IsEvent(conns[c].req)
              /\ Len(queue) = QueueCap )
            => ( /\ conns'[c].status = StatusAccepted
                 /\ ~conns'[c].panicked
                 /\ queue' = queue
                 /\ conns[c].rid \in dropped' )]_vars
    /\ [](\A r \in dropped :
            /\ r \notin QueuedRids
            /\ r \notin RunningRids
            /\ r \notin Range(dispatched)
            /\ r \notin Range(enqueued))

\* a handler has answered 202 for a job it dropped on a full queue, and the
\* dispatcher has since drained the queue
C1_Witness ==
    \E c \in Conns :
        /\ conns[c].pc = "done"
        /\ conns[c].rid \in dropped
        /\ conns[c].status = StatusAccepted
        /\ Len(dispatched) = QueueCap
        /\ queue = << >>

\* C2: once the shutdown cancellation is signalled, the dispatcher loop takes
\* no further job from the queue.
C2_NoDequeueAfterCancel ==
    [][cancelled => dispatched' = dispatched]_vars

\* the log lines with which processJob gives a job up
FailureOutcomes ==
    { "no repo mapping, skipping", "pipeline failed", "failed to create PR",
      "failed to create PR: context canceled" }

\* C3: a job that was received before the cancellation was signalled never has
\* one of its steps aborted by the cancellation: no such job ends with the
\* context's cancellation as its error.
C3_InFlightJobNotCancelled ==
    [][\A j \in running :
        (j \notin running' /\ ~j.afterCancel /\ j.stage = "pr")
        => result'[j.job.rid] # "failed to create PR: context canceled"]_vars

\* C4: the jobs handed to processJob are, in order, the first jobs that were
\* sent on the channel, and the channel holds the remaining ones in the order
\* they were sent.
C4_FIFO ==
    /\ Len(dispatched) <= Len(enqueued)
    /\ \A i \in 1..Len(dispatched) : dispatched[i] = enqueued[i]
    /\ Len(enqueued) = Len(dispatched) + Len(queue)
    /\ \A i \in 1..Len(queue) : queue[i].rid = enqueued[Len(dispatched) + i]

\* two jobs of concurrent handlers were queued together, in the opposite order
\* of their requests' arrival, and both were dispatched
C4_Witness ==
    /\ Len(dispatched) >= 2
    /\ dispatched[1] > dispatched[2]
    /\ \E c \in Conns : conns[c].rid = dispatched[1] /\ conns[c].pc = "done"
    /\ \E c \in Conns : conns[c].rid = dispatched[2] /\ conns[c].pc = "done"

\* C5: at most one job is in processJob at any moment, and while the loop is
\* at its select (about to receive) no job is in processJob.
C5_Serialized ==
    /\ Cardinality(running) <= 1
    /\ pcD = "select" => running = {}
    /\ running # {} => pcD = "processJob"

\* a second job is being processed while a third one waits in the queue
C5_Witness ==
    /\ Len(dispatched) = 2
    /\ running # {}
    /\ queue # << >>
    /\ result[dispatched[1]] # "none"

\* C6: whichever stage of processJob fails, the call returns to the loop, which
\* is then at its select with no job in hand; the loop ends only through
\* cancellation; and every job in the queue is eventually dispatched unless
\* cancellation is signalled.
C6_FailedJobDoesNotBlock ==
    /\ [][\A j \in running :
            (j \notin running' /\ result'[j.job.rid] \in FailureOutcomes)
            => (pcD' = "select" /\ running' = {})]_vars
    /\ [](pcD = "returned" => cancelled)
    /\ \A r \in 1..MaxRequests :
            (r \in QueuedRids /\ ~cancelled) ~> (r \in Range(dispatched) \/ cancelled)

\* a job failed in fix generation, the next one failed in PR creation (the
\* shutdown not yet signalled), and a third job was dispatched after them
C6_Witness ==
    /\ Len(dispatched) = 3
    /\ result[dispatched[1]] = "pipeline failed"
    /\ result[dispatched[2]] = "failed to create PR"
    /\ ~cancelled

\* the gate let the request through and the handler has answered it
Handled(k) == k.pc = "done" /\ k.invoked

\* C7: a POST whose JSON envelope has no issue object is answered 202 by a
\* handler that completes normally, and no job is queued for it.
C7_NoIssueAcceptedAndIgnored ==
    \A c \in Conns :
        LET k == conns[c] IN
        ( /\ Handled(k)
          /\ k.req.method = "POST"
          /\ k.req.body.json
          /\ k.req.body.issue = << >> )
        => ( /\ k.status = StatusAccepted
             /\ ~k.panicked
             /\ k.rid \notin Range(enqueued) \cup dropped )

\* C8: a POST of a parseable envelope whose action is neither created nor
\* triggered is answered 202, whatever else it carries, and no job is queued.
C8_ActionGate ==
    \A c \in Conns :
        LET k == conns[c] IN
        ( /\ Handled(k)
          /\ k.req.method = "POST"
          /\ k.req.body.json
          /\ k.req.body.action \notin {"created", "triggered"} )
        => ( /\ k.status = StatusAccepted
             /\ ~k.panicked
             /\ k.rid \notin Range(enqueued) \cup dropped )

\* a request that passes every check on the way to the queue
Admissible(req) ==
    /\ req.sig = ComputeSignature(Secret, req.body)
    /\ IsEvent(req)

\* C9: every job in the queue (or taken from it) was made from a request that
\* carried the signature of its body under the secret, used POST, had a
\* parseable body, had action created or triggered and carried an issue; a
\* request that fails one of these is never sent or dropped on the queue.
C9_QueueAdmission ==
    /\ \A i \in 1..Len(queue) : Admissible(queue[i].origin)
    /\ \A j \in running : Admissible(j.job.origin)
    /\ \A c \in Conns :
        (conns[c].pc = "done" /\ ~Admissible(conns[c].req))
        => conns[c].rid \notin Range(enqueued) \cup dropped

\* a job waits in the queue while a request with a forged signature and one
\* without have been answered
C9_Witness ==
    /\ queue # << >>
    /\ \E c \in Conns :
        /\ conns[c].pc = "done"
        /\ conns[c].req.sig = ComputeSignature("wrong", conns[c].req.body)
        /\ IsEvent(conns[c].req)

\* C10: once the gate has acted on a request: without a signature it answered
\* 401; with a signature and an unreadable body it answered 400; with a
\* signature that is not the one of the body it answered 401; in all three
\* the handler was not invoked and the queue saw nothing of the request; and
\* the handler was invoked only for a request carrying the signature of its
\* body.
C10_GateNoSideEffects ==
    \A c \in Conns :
        LET k == conns[c]
            untouched == ~k.invoked /\ k.pc = "done"
                         /\ k.rid \notin Range(enqueued) \cup dropped IN
        k.pc \in {"handler", "done"} =>
            /\ k.req.sig = EmptySignature
                => (k.status = StatusUnauthorized /\ untouched)
            /\ (k.req.sig # EmptySignature /\ k.req.readErr)
                => (k.status = StatusBadRequest /\ untouched)
            /\ ( /\ k.req.sig # EmptySignature
                 /\ ~k.req.readErr
                 /\ k.req.sig # ComputeSignature(Secret, k.req.body) )
                => (k.status = StatusUnauthorized /\ untouched)
            /\ k.invoked
                => (k.req.sig = ComputeSignature(Secret, k.req.body) /\ ~k.req.readErr)

\* the gate has rejected a signature computed over another body
C10_Witness ==
    \E c \in Conns :
        /\ conns[c].pc = "done"
        /\ conns[c].req.sig = ComputeSignature(Secret, OtherBody(conns[c].req.body))
        /\ conns[c].status = StatusUnauthorized
        /\ ~conns[c].invoked

\* C11: Verify answers true exactly when the signature is the non-empty
\* hexadecimal HMAC-SHA256 of the body under the verifier's secret; it answers
\* false for the empty signature, for a signature that differs from the
\* expected one, for the correct signature of another body and for the
\* signature of the same body under another secret.
C11_VerifyExact ==
    verifyCall.pc = "returned" =>
        /\ verifyCall.ok <=>
              /\ verifyCall.signature # EmptySignature
              /\ verifyCall.signature =
                     ComputeSignature(verifyCall.v.secret, verifyCall.body)
        /\ verifyCall.signature = EmptySignature => ~verifyCall.ok
        /\ \A k \in VerifySecrets, b \in VerifyBodies :
              /\ verifyCall.signature = ComputeSignature(k, b)
              /\ k # verifyCall.v.secret \/ b # verifyCall.body
              => ~verifyCall.ok

\* a verifier was given the MAC of another body under its secret, and the
\* call returned
C11_Witness ==
    /\ verifyCall.pc = "returned"
    /\ ~verifyCall.ok
    /\ \E b \in VerifyBodies \ {verifyCall.body} :
          verifyCall.signature = ComputeSignature(verifyCall.v.secret, b)

\* C12: whatever the sizes of the non-empty buffers passed to Read, the bytes
\* returned so far are a prefix of the body, a Read before the end returns
\* at least one byte and no error, a Read made once the whole body has been
\* returned gives 0 bytes and EOF, and at EOF the bytes returned are exactly
\* the body.
C12_BodyReexposed ==
    reader.pc = "open" /\ reader.reads > 0 =>
        LET data == reader.b.data
        IN  /\ Len(reader.out) <= Len(data)
            /\ reader.out = SubSeq(data, 1, Len(reader.out))
            /\ reader.err = "EOF" <=> reader.before = Len(data)
            /\ reader.err = "EOF" => reader.n = 0 /\ reader.out = data
            /\ reader.err = "nil" =>
                  reader.n >= 1 /\ Len(reader.out) = reader.before + reader.n

\* a body of the greatest length was read in several pieces and Read was
\* called at least twice after its end
C12_Witness ==
    /\ reader.pc = "open"
    /\ Len(reader.b.data) = MaxBodyLen
    /\ reader.reads >= MaxBodyLen + 2
    /\ reader.err = "EOF"
    /\ reader.out = reader.b.data

\* the CommitFiles calls that returned, by their position
CommitReturns ==
    { i \in 1..Len(prov.returns) : prov.returns[i].op = "CommitFiles" }

\* the tree a commit of the remote holds
TreeOf(sha) == remote.commits[sha].Tree

\* the tree holds the content of every change of files at its path
HoldsContent(tree, files) ==
    \A i \in 1..Len(files) :
        /\ tree[files[i].Path] # << >>
        /\ tree[files[i].Path][1].Content = files[i].Content

\* C13: of two successive CommitFiles calls with the same branch and the
\* same file changes in which no remote call failed, both return no error,
\* they return two different commits, the second commit has the first as its
\* only parent, and after each of them the tree of the branch head holds the
\* requested content at every changed path.
C13_RetrySafe ==
    \A i \in CommitReturns, j \in CommitReturns :
        LET r1 == prov.returns[i]
            r2 == prov.returns[j]
        IN  j = i + 1 /\ r1.args = r2.args /\ ~r1.failed /\ ~r2.failed =>
                /\ r1.err = NoError /\ r2.err = NoError
                /\ r1.value # r2.value
                /\ remote.commits[r2.value].Parents = << r1.value >>
                /\ r1.headAfter = r1.value /\ r2.headAfter = r2.value
                /\ HoldsContent(TreeOf(r1.headAfter), r1.args.files)
                /\ HoldsContent(TreeOf(r2.headAfter), r2.args.files)

\* CommitFiles ran twice with the same two changes and no remote call failed
C13_Witness ==
    /\ Len(prov.returns) >= 2
    /\ prov.returns[1].op = "CommitFiles" /\ prov.returns[2].op = "CommitFiles"
    /\ prov.returns[1].args = prov.returns[2].args
    /\ Len(prov.returns[1].args.files) = 2
    /\ ~prov.returns[1].failed /\ ~prov.returns[2].failed
    /\ prov.returns[2].err = NoError

\* the tree CommitFiles is to produce: the changed paths hold a blob with the
\* new content and the given mode, 100644 for an empty one, every other
\* path is as in the base tree
ExpectedTree(base, files) ==
    [p \in Paths |->
        IF \E i \in 1..Len(files) : files[i].Path = p
        THEN LET f == files[CHOOSE i \in 1..Len(files) : files[i].Path = p]
             IN  << [Mode |-> IF f.Mode = "" THEN "100644" ELSE f.Mode,
                     Type |-> "blob", Content |-> f.Content] >>
        ELSE base[p]]

\* C14: when CommitFiles returns no error, the branch reference points at
\* the returned commit, that commit did not exist before the call, its sole
\* parent is the head the branch had when the call started, and its tree is
\* that head's tree overlaid with the changed files.
C14_CommitShape ==
    \A i \in CommitReturns :
        LET r == prov.returns[i]
        IN  r.err = NoError =>
                /\ r.headAfter = r.value
                /\ r.value > r.commitsBefore
                /\ remote.commits[r.value].Parents = << r.headBefore >>
                /\ TreeOf(r.value) = ExpectedTree(TreeOf(r.headBefore), r.args.files)

\* a successful call changed the existing file with an empty mode and added
\* an executable, on top of a commit made by an earlier call
C14_Witness ==
    \E i \in CommitReturns :
        LET r == prov.returns[i]
        IN  /\ r.err = NoError
            /\ r.headBefore > 1
            /\ \E k \in 1..Len(r.args.files) :
                  r.args.files[k].Path = "a.go" /\ r.args.files[k].Mode = ""
            /\ \E k \in 1..Len(r.args.files) :
                  r.args.files[k].Path = "b.go" /\ r.args.files[k].Mode = "100755"
            /\ TreeOf(r.value)["keep.go"] = BaseTree["keep.go"]

\* the client calls of CommitFiles, in the order of the code
CommitSteps == << "get-ref", "get-commit", "create-tree", "create-commit", "update-ref" >>

\* the log holds the steps in order from the first, each once, and only the
\* last may have failed
FailStop(log) ==
    /\ Len(log) <= Len(CommitSteps)
    /\ \A k \in 1..Len(log) : log[k].step = CommitSteps[k]
    /\ \A k \in 1..Len(log) : k < Len(log) => log[k].ok

\* C15: the client calls of one CommitFiles call are get-ref, get-commit,
\* create-tree, create-commit, update-ref in that order, each at most once;
\* a failed call is the last one made and the call then returns an error; a
\* call that returns an error leaves every reference where it was.
C15_FailStop ==
    /\ prov.op = "CommitFiles" => FailStop(prov.log)
    /\ \A i \in CommitReturns :
          LET r == prov.returns[i]
          IN  /\ FailStop(r.log)
              /\ r.err # NoError <=> ~r.log[Len(r.log)].ok
              /\ r.err = NoError => Len(r.log) = Len(CommitSteps)
              /\ r.err # NoError => r.headAfter = r.headBefore
    /\ remote.refs["refs/heads/main"] = 1

\* a call failed at update-ref after it had created its commit, which no
\* reference points at
C15_Witness ==
    \E i \in CommitReturns :
        LET r == prov.returns[i]
        IN  /\ r.err # NoError
            /\ Len(r.log) = Len(CommitSteps)
            /\ r.headBefore # 0
            /\ Len(remote.commits) > r.commitsBefore
            /\ \A ref \in RefNames : remote.refs[ref] <= r.commitsBefore

\* the CreateBranch calls that returned, by their position
BranchReturns ==
    { i \in 1..Len(prov.returns) : prov.returns[i].op = "CreateBranch" }

\* C16: CreateBranch makes one create-reference call; it returns no error
\* when that call succeeds or fails because the reference already exists,
\* and an error for every other failure; so a second call with the same
\* name and base SHA that follows a successful one and reaches the remote
\* returns no error too, and leaves the branch where the first left it.
C16_CreateBranchIdempotent ==
    /\ \A i \in BranchReturns :
          LET r == prov.returns[i]
              e == r.log[1].err
          IN  /\ Len(r.log) = 1
              /\ e = NoError => r.err = NoError /\ r.headAfter = r.args.baseSHA
              /\ e = ErrAlreadyExists => r.err = NoError /\ r.headAfter = r.headBefore
              /\ e \notin {NoError, ErrAlreadyExists} =>
                    r.err # NoError /\ r.headAfter = r.headBefore
    /\ \A i \in BranchReturns, j \in BranchReturns :
          LET r1 == prov.returns[i]
              r2 == prov.returns[j]
          IN  /\ j = i + 1
              /\ r1.args = r2.args
              /\ r1.err = NoError
              /\ r2.log[1].err # ErrTransport
              => r2.err = NoError /\ r2.headAfter = r1.headAfter

\* the branch was created by one call and the same call was made again: the
\* remote refused it as existing
C16_Witness ==
    /\ Len(prov.returns) >= 2
    /\ prov.returns[1].op = "CreateBranch" /\ prov.returns[2].op = "CreateBranch"
    /\ prov.returns[1].args = prov.returns[2].args
    /\ prov.returns[1].headBefore = 0
    /\ prov.returns[1].log[1].err = NoError
    /\ prov.returns[2].log[1].err = ErrAlreadyExists
    /\ prov.returns[2].err = NoError

\* the CreatePullRequest calls that returned, by their position
PRReturns ==
    { i \in 1..Len(prov.returns) : prov.returns[i].op = "CreatePullRequest" }

\* the call made the client call named step
Attempted(r, step) == \E k \in 1..Len(r.log) : r.log[k].step = step

\* C17: when the create call of CreatePullRequest succeeded, the operation
\* returns no error and a PRResponse with the number and the URLs of the
\* pull request this call created, whether or not the label call or the
\* assignee call failed; the labels are attempted when the request has
\* some, and so are the assignees, also after a failed label call.
C17_SideCallsNonFatal ==
    \A i \in PRReturns :
        LET r == prov.returns[i]
        IN  r.log[1].ok =>
                /\ r.err = NoError
                /\ Len(r.value) = 1
                /\ r.value[1].Number = r.prsBefore + 1
                /\ r.value[1].Number \in 1..Len(remote.prs)
                /\ remote.prs[r.value[1].Number].Head = r.args.Head
                /\ r.value[1].URL = URLOf(r.value[1].Number)
                /\ r.value[1].HTMLURL = HTMLURLOf(r.value[1].Number)
                /\ Len(r.args.Labels) > 0 <=> Attempted(r, "add-labels")
                /\ Len(r.args.Assignees) > 0 <=> Attempted(r, "add-assignees")

\* the pull request was created, then the label call failed, then the
\* assignee call was made and failed as well
C17_Witness ==
    \E i \in PRReturns :
        LET r == prov.returns[i]
        IN  /\ Len(r.log) = 3
            /\ r.log[1].ok /\ ~r.log[2].ok /\ ~r.log[3].ok
            /\ r.log[2].step = "add-labels" /\ r.log[3].step = "add-assignees"
            /\ r.err = NoError

\* C18: every ParsedError there is, the one of each job in the queue and of
\* each job processJob is working on, has a non-empty IssueID and a non-empty
\* ProjectSlug.
C18_ParsedErrorPopulated ==
    /\ \A i \in 1..Len(queue) :
          queue[i].ParsedError.IssueID # "" /\ queue[i].ParsedError.ProjectSlug # ""
    /\ \A j \in running :
          j.job.ParsedError.IssueID # "" /\ j.job.ParsedError.ProjectSlug # ""

\* the entries of the webhook that was parsed
ParsedEntries ==
    IF parseCall.wh.Event = <<>> THEN << >> ELSE parseCall.wh.Event[1].Entries

\* the envelope has a frame object at frames[f] of the stacktrace of
\* values[v] of the data of entry e, and entry e is an exception
IsFrameObject(e, v, f) ==
    /\ e \in 1..Len(ParsedEntries)
    /\ ParsedEntries[e].Type = "exception"
    /\ ParsedEntries[e].Data.k = "object"
    /\ "values" \in DOMAIN ParsedEntries[e].Data.o
    /\ ParsedEntries[e].Data.o["values"].k = "array"
    /\ v \in 1..Len(ParsedEntries[e].Data.o["values"].a)
    /\ LET val == ParsedEntries[e].Data.o["values"].a[v]
       IN  /\ val.k = "object"
           /\ "stacktrace" \in DOMAIN val.o
           /\ val.o["stacktrace"].k = "object"
           /\ "frames" \in DOMAIN val.o["stacktrace"].o
           /\ val.o["stacktrace"].o["frames"].k = "array"
           /\ f \in 1..Len(val.o["stacktrace"].o["frames"].a)
           /\ val.o["stacktrace"].o["frames"].a[f].k = "object"

\* the frame object at a position
FrameObjectAt(pos) ==
    ParsedEntries[pos[1]].Data.o["values"].a[pos[2]].o["stacktrace"].o["frames"].a[pos[3]].o

\* the positions of the frame objects of the exception entries
FramePositions ==
    { pos \in (1..2) \X (1..2) \X (1..MaxFrames) : IsFrameObject(pos[1], pos[2], pos[3]) }

\* position q comes before position p in the envelope
ComesBefore(q, p) ==
    \/ q[1] < p[1]
    \/ q[1] = p[1] /\ q[2] < p[2]
    \/ q[1] = p[1] /\ q[2] = p[2] /\ q[3] < p[3]

\* the place of a frame object among the frame objects, in source order
RankOf(p) == Cardinality({ q \in FramePositions : ComesBefore(q, p) }) + 1

\* C19: ParseWebhook returns a record whose frames are as many as the frame
\* objects of the exception entries, in the order of the envelope: the n-th
\* frame has the InApp flag, the filename, the function and the line of the
\* n-th frame object, and the zero value for each of them the object lacks;
\* entries of another type add no frame.
C19_FramesPreserved ==
    parseCall.pc = "returned" =>
        /\ parseCall.parsed # <<>>
        /\ Len(parseCall.parsed[1].Frames) = Cardinality(FramePositions)
        /\ \A p \in FramePositions :
              LET obj == FrameObjectAt(p)
                  frame == parseCall.parsed[1].Frames[RankOf(p)]
              IN  /\ frame.InApp <=>
                        ("inApp" \in DOMAIN obj /\ obj["inApp"] = JBool(TRUE))
                  /\ "filename" \in DOMAIN obj => obj["filename"] = JString(frame.Filename)
                  /\ "filename" \notin DOMAIN obj => frame.Filename = ""
                  /\ "function" \in DOMAIN obj => obj["function"] = JString(frame.Function)
                  /\ "function" \notin DOMAIN obj => frame.Function = ""
                  /\ "lineNo" \in DOMAIN obj => obj["lineNo"] = JNumber(frame.LineNo)
                  /\ "lineNo" \notin DOMAIN obj => frame.LineNo = 0
                  /\ frame.AbsPath = "" /\ frame.Module = "" /\ frame.ColNo = 0

\* an entry of another type that carries a frame object came first, then an
\* exception whose frames differ in InApp and of which one lacks a filename
C19_Witness ==
    /\ parseCall.pc = "returned"
    /\ Len(ParsedEntries) = 2
    /\ ParsedEntries[1].Type = "breadcrumbs"
    /\ FramesOfEntryAnyType(ParsedEntries[1]) # << >>
    /\ Len(parseCall.parsed[1].Frames) = 2
    /\ parseCall.parsed[1].Frames[1].InApp
    /\ ~parseCall.parsed[1].Frames[2].InApp
    /\ parseCall.parsed[1].Frames[2].Filename = ""

\* no configured mapping has exactly this project slug
Unmapped(slug) ==
    \A i \in 1..Len(RepoMappings) : RepoMappings[i].SentryProject # slug

\* C20: a job whose project slug has no mapping never gets past the lookup
\* of processJob: it is never at the fix generation or at the pull request,
\* and the step it takes ends processJob with the skip outcome and hands
\* control back to the dispatcher loop.
C20_MappingMissNoOp ==
    /\ [](\A j \in running :
            Unmapped(j.job.ParsedError.ProjectSlug) => j.stage = "lookup")
    /\ [][\A j \in running :
            (Unmapped(j.job.ParsedError.ProjectSlug) /\ j \notin running')
            => /\ result'[j.job.rid] = "no repo mapping, skipping"
               /\ running' = {}
               /\ pcD' = "select"]_vars

\* processJob returned for a job of a project without mapping, and for a job
\* of the mapped project after it
C20_Witness ==
    /\ Len(dispatched) >= 2
    /\ result[dispatched[1]] = "no repo mapping, skipping"
    /\ result[dispatched[2]] \in {"created PR", "pipeline failed", "failed to create PR"}

\* C21: a job whose failure was logged is no longer worked on and its outcome
\* never changes; a job gets to the pull request only from the fix
\* generation, in a step that logs no failure; and the step in which the pull
\* request fails ends processJob for the job.
C21_StageFailureAborts ==
    /\ [](\A j \in running : result[j.job.rid] = "none")
    /\ [][\A r \in 1..MaxRequests : result[r] # "none" => result'[r] = result[r]]_vars
    /\ [][\A k \in running' :
            k.stage = "pr" =>
                \E j \in running :
                    /\ j.job = k.job
                    /\ j.stage \in {"run", "pr"}
                    /\ j.stage = "run" => result' = result]_vars
    /\ [][\A j \in running :
            result'[j.job.rid] \in FailureOutcomes
            => \A k \in running' : k.job.rid # j.job.rid]_vars

\* one job failed in fix generation and another in the creation of its pull
\* request
C21_Witness ==
    /\ \E r \in 1..MaxRequests : result[r] = "pipeline failed"
    /\ \E r \in 1..MaxRequests : result[r] = "failed to create PR"

\* C22: no job is passed to processJob twice; a job that was passed to
\* processJob is not on the queue again, whatever its outcome; a job whose
\* outcome was logged is neither queued nor being processed; and a dropped job
\* is never queued or passed to processJob.
C22_SingleDispatch ==
    /\ \A i, k \in 1..Len(dispatched) : dispatched[i] = dispatched[k] => i = k
    /\ \A i, k \in 1..Len(queue) : queue[i].rid = queue[k].rid => i = k
    /\ QueuedRids \cap Range(dispatched) = {}
    /\ RunningRids \subseteq Range(dispatched)
    /\ \A r \in 1..MaxRequests :
        result[r] # "none" => r \in Range(dispatched) \ (QueuedRids \cup RunningRids)
    /\ dropped \cap (Range(dispatched) \cup QueuedRids \cup Range(enqueued)) = {}

\* a job failed, another was dropped, and the dispatcher is idle again
C22_Witness ==
    /\ \E r \in 1..MaxRequests : result[r] \in FailureOutcomes
    /\ dropped # {}
    /\ pcD = "select"
    /\ running = {}

\* the request ids for which a job was sent or dropped
JobRids == Range(enqueued) \cup dropped \cup QueuedRids \cup Range(dispatched)

\* C23: a request with a method other than POST that Handler.ServeHTTP has
\* served was answered 405, whatever its body, and no job was made for it.
C23_NonPostRejected ==
    \A c \in Conns :
        LET k == conns[c] IN
        (Handled(k) /\ k.req.method # "POST")
        => /\ k.status = StatusMethodNotAllowed
           /\ ~k.panicked
           /\ k.rid \notin JobRids

\* the handler has served a GET whose body is a created event with an issue,
\* and one whose body cannot be read
C23_Witness ==
    /\ Handled(conns["c1"])
    /\ conns["c1"].req.method = "GET"
    /\ conns["c1"].req.body.json
    /\ conns["c1"].req.body.action = "created"
    /\ conns["c1"].req.body.issue # << >>
    /\ Handled(conns["c2"])
    /\ conns["c2"].req.method = "GET"
    /\ conns["c2"].req.readErr

\* C24: a POST that Handler.ServeHTTP has served and whose body could not be
\* read, or was read and is not JSON, was answered 400, and no job was made
\* for it.
C24_BadBodyRejected ==
    \A c \in Conns :
        LET k == conns[c] IN
        (Handled(k) /\ k.req.method = "POST" /\ (k.req.readErr \/ ~k.req.body.json))
        => /\ k.status = StatusBadRequest
           /\ ~k.panicked
           /\ k.rid \notin JobRids

\* the handler has served a POST with an unreadable body and a POST with a
\* body that is not JSON
C24_Witness ==
    /\ Handled(conns["c1"])
    /\ conns["c1"].req.method = "POST"
    /\ conns["c1"].req.readErr
    /\ Handled(conns["c2"])
    /\ conns["c2"].req.method = "POST"
    /\ ~conns["c2"].req.readErr
    /\ ~conns["c2"].req.body.json

\* C25: every commit another writer pushed stays reachable from the branch
\* head; and when the reference update of CommitFiles is sent while the branch
\* head is no longer the commit CommitFiles read as parent, the call returns
\* an error and the branch still points at the other writer's commit.
C25_NoOverwrite ==
    /\ [](\A sha \in OtherCommits(remote) :
            /\ remote.refs["refs/heads/fix"] # 0
            /\ IsAncestor(remote, sha, remote.refs["refs/heads/fix"]))
    /\ [][( /\ prov.pc = "update-ref"
            /\ prov'.pc = "idle"
            /\ remote.refs[prov.watch] # prov.local.parentSHA )
          => /\ prov'.returns[Len(prov'.returns)].err # NoError
             /\ prov'.returns[Len(prov'.returns)].value = 0
             /\ remote'.refs = remote.refs
             /\ remote'.refs[prov.watch] \in OtherCommits(remote')]_vars

\* CommitFiles read the head, the other writer pushed, and the call has
\* returned after sending its reference update, which the remote answered
C25_Witness ==
    /\ prov.pc = "idle"
    /\ Len(prov.returns) = 1
    /\ LET ret == prov.returns[1] IN
        /\ Len(ret.log) = 5
        /\ ret.log[5].step = "update-ref"
        /\ ret.log[5].err = ErrUnprocessable
        /\ ret.headAfter \in OtherCommits(remote)
        /\ ret.headAfter # ret.headBefore

\* C26: once the context is cancelled the dispatcher loop eventually returns,
\* given that every processJob call in progress returns and that the select
\* does not pass over the cancellation case for ever; requests may still be
\* accepted and queued meanwhile.
C26_DispatcherTerminates == cancelled ~> (pcD = "returned")

\* the loop returned after the cancellation although a job was still queued,
\* and after it had processed a job it received when the context was already
\* cancelled
C26_Witness ==
    /\ cancelled
    /\ pcD = "returned"
    /\ queue # << >>
    /\ \E r \in 1..MaxRequests :
        result[r] \in {"pipeline failed", "failed to create PR: context canceled"}

\* the request does not carry the signature of its body under the secret
Unsigned(req) == req.sig # ComputeSignature(Secret, req.body)

\* C27 as stated: every request served without a valid signature was answered
\* 401, whatever its method, body or action.
C27_UnverifiedAlways401 ==
    \A c \in Conns :
        LET k == conns[c] IN
        (k.pc = "done" /\ Unsigned(k.req)) => k.status = StatusUnauthorized

\* C27: a request served without a valid signature never reached the handler
\* and was answered 401, except that it was answered 400 by the gate when it
\* carried a signature and its body could not be read; the handler ran, and
\* 405, 202 or the handler's 400 was written, only for a request whose body
\* was read and whose signature is the one of that body.
C27_GateBeforeHandler ==
    \A c \in Conns :
        LET k == conns[c] IN
        /\ (k.pc = "done" /\ Unsigned(k.req))
           => /\ ~k.invoked
              /\ IF k.req.sig # EmptySignature /\ k.req.readErr
                 THEN k.status = StatusBadRequest
                 ELSE k.status = StatusUnauthorized
        /\ k.invoked => (~Unsigned(k.req) /\ ~k.req.readErr)
        /\ k.status \in {StatusMethodNotAllowed, StatusAccepted} => k.invoked
        /\ (k.status = StatusBadRequest /\ ~k.invoked)
           => (k.req.readErr /\ k.req.sig # EmptySignature)

\* a GET whose body is a created event with an issue, signed with another
\* secret, was answered 401 by the gate
C27_Witness ==
    LET k == conns["c1"] IN
    /\ k.pc = "done"
    /\ k.req.method = "GET"
    /\ k.req.body.json
    /\ k.req.body.action = "created"
    /\ k.req.sig = ComputeSignature("wrong", k.req.body)
    /\ k.status = StatusUnauthorized
    /\ ~k.invoked

\* C28: a CreateBranch call made when the named branch exists leaves the
\* branch at the commit it pointed at, whatever base SHA is given, and returns
\* no error when the remote answered its create-reference call.
C28_ExistingBranchKept ==
    \A i \in BranchReturns :
        LET r == prov.returns[i] IN
        r.headBefore # 0
        => /\ r.headAfter = r.headBefore
           /\ r.log[1].err # ErrTransport => r.err = NoError

\* the branch existed at a commit other than the base SHA, which is a commit
\* of the remote too, and the remote answered the call
C28_Witness ==
    \E i \in BranchReturns :
        LET r == prov.returns[i] IN
        /\ r.headBefore # 0
        /\ r.args.baseSHA # r.headBefore
        /\ r.args.baseSHA \in 1..Len(remote.commits)
        /\ r.log[1].err = ErrAlreadyExists
        /\ r.err = NoError
        /\ r.headAfter = r.headBefore

\* C29: once the dispatcher loop has returned it stays returned, no job is in
\* processJob, and from then on no job is taken from the queue and no outcome
\* is logged, whether the job was queued before the return or is queued by a
\* handler after it; the jobs in the queue have never been passed to
\* processJob.
C29_NothingAfterReturn ==
    /\ [](pcD = "returned"
          => /\ cancelled
             /\ running = {}
             /\ \A r \in QueuedRids : r \notin Range(dispatched) /\ result[r] = "none")
    /\ [][pcD = "returned"
          => /\ pcD' = "returned"
             /\ dispatched' = dispatched
             /\ running' = running
             /\ result' = result
             /\ Len(queue') >= Len(queue)
             /\ \A i \in 1..Len(queue) : queue'[i] = queue[i]]_vars

\* the loop has returned with a job left in the queue, the listener still
\* accepts, and a handler holding a further valid event is about to queue it
C29_Witness ==
    /\ pcD = "returned"
    /\ queue # << >>
    /\ Len(queue) < QueueCap
    /\ listening
    /\ conns["c1"].pc = "handler"
    /\ Admissible(conns["c1"].req)

\* C30: with handlers running concurrently with the dispatcher, the queue
\* never holds more jobs than its capacity; no request is queued twice; no
\* request is both queued and dropped; every job that was queued is in the
\* queue or was received by the dispatcher, once; and every valid
\* created/triggered request with an issue whose handler has finished was
\* either queued or dropped.
C30_BoundAndConservation ==
    /\ Len(queue) <= QueueCap
    /\ \A i, k \in 1..Len(enqueued) : enqueued[i] = enqueued[k] => i = k
    /\ Range(enqueued) \cap dropped = {}
    /\ Range(enqueued) = QueuedRids \cup Range(dispatched)
    /\ Len(enqueued) = Len(queue) + Len(dispatched)
    /\ \A c \in Conns :
        LET k == conns[c] IN
        (k.pc = "done" /\ Admissible(k.req))
        => (k.rid \in Range(enqueued)) # (k.rid \in dropped)

\* two handlers have finished with valid events while the queue was filling:
\* the queue is at capacity, one event was queued and the other dropped
C30_Witness ==
    /\ Len(queue) = QueueCap
    /\ conns["c1"].pc = "done" /\ Admissible(conns["c1"].req)
    /\ conns["c2"].pc = "done" /\ Admissible(conns["c2"].req)
    /\ conns["c1"].rid \in Range(enqueued)
    /\ conns["c2"].rid \in dropped

====
